---- MODULE Spec2Model ----
(***************************************************************************)
(* Chain-scoped EVM configuration (the layered parameter resolver) of      *)
(* core/chains/evm/config: environment override, persisted override,       *)
(* default parameter set, with Validate() and the runtime-settable default *)
(* gas price guarded by persistMu.                                         *)
(*                                                                         *)
(* Go values are modelled with their dynamic type: [t |-> type, v |-> n].  *)
(* Go strings are sequences of one-character strings.  A getter returns    *)
(* Ok(v) or Panic (a failed type assertion).                               *)
(***************************************************************************)
EXTENDS Integers, Sequences, FiniteSets, TLC

\* ------------------------------------------------------------------ bounds
\* longest environment string built from EnvAlphabet
MaxEnvLen == 2
\* gas prices offered to SetEvmGasPriceDefault are 0..MaxGasPrice
MaxGasPrice == 4
\* read holds persistMu may accumulate before the model stops issuing reads
MaxReaderCount == 4
\* calls of chainScopedConfigORM.store the model follows
MaxStores == 2

\* ------------------------------------------------------------ Go strings
Str_true == <<"t", "r", "u", "e">>
Str_BlockHistory == <<"B", "l", "o", "c", "k", "H", "i", "s", "t", "o", "r", "y">>
Str_FixedPrice == <<"F", "i", "x", "e", "d", "P", "r", "i", "c", "e">>
Str_Overflow16 == <<"7", "0", "0", "0", "0">>
Str_Minus7 == <<"-", "7">>

EnvAlphabet == {"0", "7", "x"}

RECURSIVE SeqsUpTo(_, _)
SeqsUpTo(S, n) ==
    IF n = 0 THEN {<<>>}
    ELSE LET shorter == SeqsUpTo(S, n - 1)
         IN shorter \cup {Append(s, c) : s \in shorter, c \in S}

\* the values an environment variable may hold in the model
EnvStrings ==
    SeqsUpTo(EnvAlphabet, MaxEnvLen)
        \cup {Str_true, Str_BlockHistory, Str_FixedPrice, Str_Overflow16, Str_Minus7}

\* os.LookupEnv: a variable is unset, or set to a string (possibly empty)
Absent == [set |-> FALSE]
Present(s) == [set |-> TRUE, s |-> s]

\* ------------------------------------------------- config.Parse* functions
Digits == {"0", "1", "2", "3", "4", "5", "6", "7", "8", "9"}

DigitVal(c) ==
    CASE c = "0" -> 0 [] c = "1" -> 1 [] c = "2" -> 2 [] c = "3" -> 3
      [] c = "4" -> 4 [] c = "5" -> 5 [] c = "6" -> 6 [] c = "7" -> 7
      [] c = "8" -> 8 [] c = "9" -> 9

RECURSIVE Atoi(_)
Atoi(s) ==
    IF Len(s) = 0 THEN 0
    ELSE 10 * Atoi(SubSeq(s, 1, Len(s) - 1)) + DigitVal(s[Len(s)])

AllDigits(s) == Len(s) > 0 /\ \A i \in 1..Len(s) : s[i] \in Digits

\* math.MaxUint16 + 1
Pow16 == 256 * 256

ParseErr == [err |-> TRUE]
Parsed(type, v) == [err |-> FALSE, val |-> [t |-> type, v |-> v]]

\* strconv.ParseUint(s, 10, 16)
ParseUint16(s) ==
    IF AllDigits(s) /\ Atoi(s) < Pow16 THEN Parsed("uint16", Atoi(s)) ELSE ParseErr

\* strconv.ParseUint(s, 10, 32); every digit string of the model is below 2^32
ParseUint32(s) ==
    IF AllDigits(s) THEN Parsed("uint32", Atoi(s)) ELSE ParseErr

\* strconv.ParseUint(s, 10, 64): the value it yields is a uint64
ParseUint64(s) ==
    IF AllDigits(s) THEN Parsed("uint64", Atoi(s)) ELSE ParseErr

\* new(big.Int).SetString(s, 10): an optional sign, then digits
ParseBigInt(s) ==
    IF AllDigits(s) THEN Parsed("bigint", Atoi(s))
    ELSE IF Len(s) > 1 /\ s[1] = "-" /\ AllDigits(Tail(s))
         THEN Parsed("bigint", 0 - Atoi(Tail(s)))
         ELSE ParseErr

\* strconv.ParseBool
ParseBool(s) ==
    IF s \in {<<"1">>, <<"t">>, <<"T">>, Str_true} THEN Parsed("bool", TRUE)
    ELSE IF s \in {<<"0">>, <<"f">>, <<"F">>} THEN Parsed("bool", FALSE)
    ELSE ParseErr

\* every string is a well-formed string
ParseString(s) == Parsed("string", s)

Parse(parser, s) ==
    CASE parser = "ParseUint16" -> ParseUint16(s)
      [] parser = "ParseUint32" -> ParseUint32(s)
      [] parser = "ParseUint64" -> ParseUint64(s)
      [] parser = "ParseBigInt" -> ParseBigInt(s)
      [] parser = "ParseBool" -> ParseBool(s)
      [] parser = "ParseString" -> ParseString(s)

\* ------------------------------------------------------------------ state
VARIABLES
    env,           \* the process environment: variable name -> Absent | Present(s)
    gcfg,          \* the embedded config.GeneralConfig, as the resolver uses it
    id,            \* chainScopedConfig.id, [hi, lo] standing for hi * 2^64 + lo
    defaultSet,    \* chainScopedConfig.defaultSet
    persistedCfg,  \* chainScopedConfig.persistedCfg
    persistMu,     \* chainScopedConfig.persistMu
    orm,           \* what chainScopedConfigORM has stored durably
    ret,           \* result of the last sequential call on the resolver
    pc,            \* per goroutine: position inside its current call
    local,         \* per goroutine: the Set argument, or the value a reader has read
    res,           \* per goroutine: result of its last returned call
    db,            \* the evm_chains and nodes tables LoadChainCollection reads
    cll,           \* the chainCollection: defaultID and the chains map
    down,          \* identities of the chains whose own operations return an error
    agg,           \* the lifecycle call of the collection under way, if any
    pg,            \* the database schema migration 0056 runs on, and ETH_CHAIN_ID
    Overrides      \* TestChainScopedConfig.Overrides

vars == <<env, gcfg, id, defaultSet, persistedCfg, persistMu, orm, ret, pc, local, res,
          db, cll, down, agg, pg, Overrides>>

\* ------------------------------------------------------------- Go values
Ok(v) == [st |-> "ok", v |-> v]
Panic == [st |-> "panic"]

\* val.(T): panics when the dynamic type of val is not T
TypeAssert(val, type) == IF val.t = type THEN Ok(val.v) ELSE Panic

\* null.Int / null.String / pointer fields of evmtypes.ChainCfg
NullInt == [Valid |-> FALSE, Int64 |-> 0]
IntFrom(n) == [Valid |-> TRUE, Int64 |-> n]
NullString == [Valid |-> FALSE, String |-> <<>>]
StringFrom(s) == [Valid |-> TRUE, String |-> s]
Nil == [nil |-> TRUE]
Ptr(n) == [nil |-> FALSE, v |-> n]

\* uint16(x) of an int64
ToUint16(n) == n % Pow16
\* uint32(x), uint64(x), uint(x) of an int64: the int64 values of the model
\* lie in 0..2^31-1, where these conversions keep the value
ToUint(n) == n

\* ------------------------------------------------- default parameter sets
fallbackDefaultSet ==
    [ name |-> "fallback",
      gasBumpPercent |-> 20, gasBumpTxDepth |-> 3, maxInFlightTransactions |-> 4,
      minGasPriceWei |-> 1, gasPriceDefault |-> 2, maxGasPriceWei |-> 3,
      gasLimitDefault |-> 50, finalityDepth |-> 5, headTrackerHistoryDepth |-> 10,
      blockHistoryEstimatorBatchSize |-> 4, rpcDefaultBatchSize |-> 9,
      blockHistoryEstimatorBlockHistorySize |-> 8,
      gasEstimatorMode |-> Str_BlockHistory, minIncomingConfirmations |-> 3,
      balanceMonitorEnabled |-> TRUE ]

mainnetDefaultSet ==
    [ fallbackDefaultSet EXCEPT !.name = "mainnet", !.gasBumpPercent = 21,
          !.gasLimitDefault = 51, !.finalityDepth = 6,
          !.blockHistoryEstimatorBatchSize = 5, !.rpcDefaultBatchSize = 11 ]

optimismDefaultSet ==
    [ fallbackDefaultSet EXCEPT !.name = "optimism", !.gasBumpPercent = 22,
          !.gasLimitDefault = 52, !.finalityDepth = 1,
          !.gasEstimatorMode = Str_FixedPrice, !.balanceMonitorEnabled = FALSE ]

\* map[int64]chainSpecificConfigDefaultSet
chainSpecificConfigDefaultSets == (1 :> mainnetDefaultSet) @@ (10 :> optimismDefaultSet)

\* ------------------------------------------------------- chain identities
BigID(hi, lo) == [hi |-> hi, lo |-> lo]

\* (*big.Int).Int64(): the low 64 bits
Int64(x) == x.lo

\* NewChainScopedConfig: the default set the constructor selects for chain ID x
NewChainScopedConfig(x) ==
    IF Int64(x) \in DOMAIN chainSpecificConfigDefaultSets
    THEN chainSpecificConfigDefaultSets[Int64(x)]
    ELSE fallbackDefaultSet

\* lookupEnv reporting a value (the nil interface) after a parse error
lookupEnv_OkOnError(k, parser) ==
    IF env[k].set
    THEN LET r == Parse(parser, env[k].s)
         IN  IF r.err THEN [ok |-> TRUE, val |-> [t |-> "nil", v |-> 0]]
             ELSE [ok |-> TRUE, val |-> r.val]
    ELSE [ok |-> FALSE]

\* ------------------------------------------------------------- lookupEnv
lookupEnv(k, parser) ==
    IF env[k].set
    THEN LET r == Parse(parser, env[k].s)
         IN  IF r.err THEN [ok |-> FALSE] ELSE [ok |-> TRUE, val |-> r.val]
    ELSE [ok |-> FALSE]

\* ---------------------------------------------------------------- getters
EvmMaxInFlightTransactions ==
    IF lookupEnv("ETH_MAX_IN_FLIGHT_TRANSACTIONS", "ParseUint32").ok
    THEN TypeAssert(lookupEnv("ETH_MAX_IN_FLIGHT_TRANSACTIONS", "ParseUint32").val, "uint32")
    ELSE Ok(defaultSet.maxInFlightTransactions)

EvmMaxGasPriceWei ==
    IF lookupEnv("ETH_MAX_GAS_PRICE_WEI", "ParseBigInt").ok
    THEN TypeAssert(lookupEnv("ETH_MAX_GAS_PRICE_WEI", "ParseBigInt").val, "bigint")
    ELSE IF ~persistedCfg.EvmMaxGasPriceWei.nil THEN Ok(persistedCfg.EvmMaxGasPriceWei.v)
    ELSE Ok(defaultSet.maxGasPriceWei)

EvmMinGasPriceWei ==
    IF lookupEnv("ETH_MIN_GAS_PRICE_WEI", "ParseBigInt").ok
    THEN TypeAssert(lookupEnv("ETH_MIN_GAS_PRICE_WEI", "ParseBigInt").val, "bigint")
    ELSE Ok(defaultSet.minGasPriceWei)

\* EvmGasLimitDefault taking a persisted zero for "unset"
EvmGasLimitDefault_ZeroIsUnset ==
    IF lookupEnv("ETH_GAS_LIMIT_DEFAULT", "ParseUint64").ok
    THEN TypeAssert(lookupEnv("ETH_GAS_LIMIT_DEFAULT", "ParseUint64").val, "uint64")
    ELSE IF persistedCfg.EvmGasLimitDefault.Int64 # 0
    THEN Ok(ToUint(persistedCfg.EvmGasLimitDefault.Int64))
    ELSE Ok(defaultSet.gasLimitDefault)

EvmGasLimitDefault ==
    IF lookupEnv("ETH_GAS_LIMIT_DEFAULT", "ParseUint64").ok
    THEN TypeAssert(lookupEnv("ETH_GAS_LIMIT_DEFAULT", "ParseUint64").val, "uint64")
    ELSE IF persistedCfg.EvmGasLimitDefault.Valid THEN Ok(ToUint(persistedCfg.EvmGasLimitDefault.Int64))
    ELSE Ok(defaultSet.gasLimitDefault)

\* the part of EvmGasPriceDefault that runs holding persistMu for reading
GasPriceDefaultLocked ==
    IF ~persistedCfg.EvmGasPriceDefault.nil
    THEN Ok(persistedCfg.EvmGasPriceDefault.v)
    ELSE Ok(defaultSet.gasPriceDefault)

EvmGasPriceDefault ==
    IF lookupEnv("ETH_GAS_PRICE_DEFAULT", "ParseBigInt").ok
    THEN TypeAssert(lookupEnv("ETH_GAS_PRICE_DEFAULT", "ParseBigInt").val, "bigint")
    ELSE GasPriceDefaultLocked

\* ParseUint64 yields a uint64; the assertion is to uint
EvmFinalityDepth ==
    IF lookupEnv("ETH_FINALITY_DEPTH", "ParseUint64").ok
    THEN TypeAssert(lookupEnv("ETH_FINALITY_DEPTH", "ParseUint64").val, "uint")
    ELSE IF persistedCfg.EvmFinalityDepth.Valid THEN Ok(ToUint(persistedCfg.EvmFinalityDepth.Int64))
    ELSE Ok(defaultSet.finalityDepth)

\* ParseUint64 yields a uint64; the assertion is to uint
EvmHeadTrackerHistoryDepth ==
    IF lookupEnv("ETH_HEAD_TRACKER_HISTORY_DEPTH", "ParseUint64").ok
    THEN TypeAssert(lookupEnv("ETH_HEAD_TRACKER_HISTORY_DEPTH", "ParseUint64").val, "uint")
    ELSE IF persistedCfg.EvmHeadTrackerHistoryDepth.Valid THEN Ok(ToUint(persistedCfg.EvmHeadTrackerHistoryDepth.Int64))
    ELSE Ok(defaultSet.headTrackerHistoryDepth)

EvmDefaultBatchSize ==
    IF lookupEnv("ETH_RPC_DEFAULT_BATCH_SIZE", "ParseUint32").ok
    THEN TypeAssert(lookupEnv("ETH_RPC_DEFAULT_BATCH_SIZE", "ParseUint32").val, "uint32")
    ELSE Ok(defaultSet.rpcDefaultBatchSize)

\* size = env or default set; a size of 0 falls through to EvmDefaultBatchSize()
BlockHistoryEstimatorBatchSize ==
    LET size == IF lookupEnv("BLOCK_HISTORY_ESTIMATOR_BATCH_SIZE", "ParseUint32").ok
                THEN TypeAssert(lookupEnv("BLOCK_HISTORY_ESTIMATOR_BATCH_SIZE", "ParseUint32").val, "uint32")
                ELSE Ok(defaultSet.blockHistoryEstimatorBatchSize)
    IN  IF size.st = "panic" THEN Panic
        ELSE IF size.v > 0 THEN size
        ELSE EvmDefaultBatchSize

BlockHistoryEstimatorBlockHistorySize ==
    IF lookupEnv("BLOCK_HISTORY_ESTIMATOR_BLOCK_HISTORY_SIZE", "ParseUint16").ok
    THEN TypeAssert(lookupEnv("BLOCK_HISTORY_ESTIMATOR_BLOCK_HISTORY_SIZE", "ParseUint16").val, "uint16")
    ELSE IF persistedCfg.BlockHistoryEstimatorBlockHistorySize.Valid THEN Ok(ToUint16(persistedCfg.BlockHistoryEstimatorBlockHistorySize.Int64))
    ELSE Ok(defaultSet.blockHistoryEstimatorBlockHistorySize)

\* GasEstimatorMode consulting the environment before the disabled flag
GasEstimatorMode_EnvFirst ==
    IF lookupEnv("GAS_ESTIMATOR_MODE", "ParseString").ok
    THEN TypeAssert(lookupEnv("GAS_ESTIMATOR_MODE", "ParseString").val, "string")
    ELSE IF gcfg.EthereumDisabled THEN Ok(Str_FixedPrice)
    ELSE IF persistedCfg.GasEstimatorMode.Valid THEN Ok(persistedCfg.GasEstimatorMode.String)
    ELSE Ok(defaultSet.gasEstimatorMode)

GasEstimatorMode ==
    IF gcfg.EthereumDisabled THEN Ok(Str_FixedPrice)
    ELSE IF lookupEnv("GAS_ESTIMATOR_MODE", "ParseString").ok
    THEN TypeAssert(lookupEnv("GAS_ESTIMATOR_MODE", "ParseString").val, "string")
    ELSE IF persistedCfg.GasEstimatorMode.Valid THEN Ok(persistedCfg.GasEstimatorMode.String)
    ELSE Ok(defaultSet.gasEstimatorMode)

MinIncomingConfirmations ==
    IF lookupEnv("MIN_INCOMING_CONFIRMATIONS", "ParseUint32").ok
    THEN TypeAssert(lookupEnv("MIN_INCOMING_CONFIRMATIONS", "ParseUint32").val, "uint32")
    ELSE Ok(defaultSet.minIncomingConfirmations)

EvmGasBumpTxDepth ==
    IF lookupEnv("ETH_GAS_BUMP_TX_DEPTH", "ParseUint16").ok
    THEN TypeAssert(lookupEnv("ETH_GAS_BUMP_TX_DEPTH", "ParseUint16").val, "uint16")
    ELSE IF persistedCfg.EvmGasBumpTxDepth.Valid THEN Ok(ToUint16(persistedCfg.EvmGasBumpTxDepth.Int64))
    ELSE Ok(defaultSet.gasBumpTxDepth)

EvmGasBumpPercent ==
    IF lookupEnv("ETH_GAS_BUMP_PERCENT", "ParseUint16").ok
    THEN TypeAssert(lookupEnv("ETH_GAS_BUMP_PERCENT", "ParseUint16").val, "uint16")
    ELSE IF persistedCfg.EvmGasBumpPercent.Valid THEN Ok(ToUint16(persistedCfg.EvmGasBumpPercent.Int64))
    ELSE Ok(defaultSet.gasBumpPercent)

EvmRPCDefaultBatchSize ==
    IF lookupEnv("ETH_RPC_DEFAULT_BATCH_SIZE", "ParseUint32").ok
    THEN TypeAssert(lookupEnv("ETH_RPC_DEFAULT_BATCH_SIZE", "ParseUint32").val, "uint32")
    ELSE IF persistedCfg.EvmRPCDefaultBatchSize.Valid THEN Ok(ToUint(persistedCfg.EvmRPCDefaultBatchSize.Int64))
    ELSE Ok(defaultSet.rpcDefaultBatchSize)

BalanceMonitorEnabled ==
    IF gcfg.EthereumDisabled THEN Ok(FALSE)
    ELSE IF lookupEnv("BALANCE_MONITOR_ENABLED", "ParseBool").ok
    THEN TypeAssert(lookupEnv("BALANCE_MONITOR_ENABLED", "ParseBool").val, "bool")
    ELSE Ok(defaultSet.balanceMonitorEnabled)

\* the getters of the model, by name
Getters ==
    { "EvmMaxInFlightTransactions", "EvmMaxGasPriceWei", "EvmMinGasPriceWei",
      "EvmGasLimitDefault", "EvmGasPriceDefault", "EvmFinalityDepth",
      "EvmHeadTrackerHistoryDepth", "EvmDefaultBatchSize",
      "BlockHistoryEstimatorBatchSize", "BlockHistoryEstimatorBlockHistorySize",
      "GasEstimatorMode", "MinIncomingConfirmations", "EvmGasBumpTxDepth",
      "EvmGasBumpPercent", "EvmRPCDefaultBatchSize", "BalanceMonitorEnabled" }

Getter(g) ==
    CASE g = "EvmMaxInFlightTransactions" -> EvmMaxInFlightTransactions
      [] g = "EvmMaxGasPriceWei" -> EvmMaxGasPriceWei
      [] g = "EvmMinGasPriceWei" -> EvmMinGasPriceWei
      [] g = "EvmGasLimitDefault" -> EvmGasLimitDefault
      [] g = "EvmGasPriceDefault" -> EvmGasPriceDefault
      [] g = "EvmFinalityDepth" -> EvmFinalityDepth
      [] g = "EvmHeadTrackerHistoryDepth" -> EvmHeadTrackerHistoryDepth
      [] g = "EvmDefaultBatchSize" -> EvmDefaultBatchSize
      [] g = "BlockHistoryEstimatorBatchSize" -> BlockHistoryEstimatorBatchSize
      [] g = "BlockHistoryEstimatorBlockHistorySize" -> BlockHistoryEstimatorBlockHistorySize
      [] g = "GasEstimatorMode" -> GasEstimatorMode
      [] g = "MinIncomingConfirmations" -> MinIncomingConfirmations
      [] g = "EvmGasBumpTxDepth" -> EvmGasBumpTxDepth
      [] g = "EvmGasBumpPercent" -> EvmGasBumpPercent
      [] g = "EvmRPCDefaultBatchSize" -> EvmRPCDefaultBatchSize
      [] g = "BalanceMonitorEnabled" -> BalanceMonitorEnabled

\* ----------------------------------------------------------------- Validate
\* core.DefaultTxPoolConfig.PriceBump
PriceBump == 10

\* multierr.Combine on error lists (nil is the empty list; lists are flattened)
Combine(a, b) == a \o b

\* errors.New / errors.Errorf, appended when the condition of the check holds
Check(err, cond, e) == IF cond THEN Combine(err, <<e>>) ELSE err

\* a getter that validate() calls panics
validatePanics ==
    \/ EvmGasBumpPercent.st = "panic"
    \/ EvmGasBumpTxDepth.st = "panic"
    \/ EvmMaxInFlightTransactions.st = "panic"
    \/ EvmMinGasPriceWei.st = "panic"
    \/ EvmGasPriceDefault.st = "panic"
    \/ EvmMaxGasPriceWei.st = "panic"
    \/ EvmHeadTrackerHistoryDepth.st = "panic"
    \/ EvmFinalityDepth.st = "panic"
    \/ GasEstimatorMode.st = "panic"
    \/ BlockHistoryEstimatorBlockHistorySize.st = "panic"
    \/ MinIncomingConfirmations.st = "panic"

validate ==
    IF validatePanics THEN Panic
    ELSE
    LET e1 == Check(<<>>, EvmGasBumpPercent.v < PriceBump, "ETH_GAS_BUMP_PERCENT")
        e2 == Check(e1, ToUint(EvmGasBumpTxDepth.v) > EvmMaxInFlightTransactions.v,
                    "ETH_GAS_BUMP_TX_DEPTH")
        e3 == Check(e2, EvmMinGasPriceWei.v > EvmGasPriceDefault.v, "ETH_MIN_GAS_PRICE_WEI")
        e4 == Check(e3, EvmMaxGasPriceWei.v < EvmGasPriceDefault.v, "ETH_MAX_GAS_PRICE_WEI")
        e5 == Check(e4, EvmHeadTrackerHistoryDepth.v < EvmFinalityDepth.v,
                    "ETH_HEAD_TRACKER_HISTORY_DEPTH")
        e6 == Check(e5, GasEstimatorMode.v = Str_BlockHistory
                            /\ BlockHistoryEstimatorBlockHistorySize.v <= 0,
                    "GAS_UPDATER_BLOCK_HISTORY_SIZE")
        e7 == Check(e6, EvmFinalityDepth.v < 1, "ETH_FINALITY_DEPTH")
        e8 == Check(e7, MinIncomingConfirmations.v < 1, "MIN_INCOMING_CONFIRMATIONS")
        e9 == Check(e8, ~gcfg.OCRSane, "SanityCheckLocalConfig")
    IN  Ok(e9)

\* c.GeneralConfig.Validate(), as an error list
GeneralConfigValidate == IF gcfg.ValidateErr THEN <<"GeneralConfig">> ELSE <<>>

Validate ==
    IF validate.st = "panic" THEN Panic
    ELSE Ok(Combine(GeneralConfigValidate, validate.v))

\* ----------------------------------------------------------- sync.RWMutex
\* readers: read holds taken and not released; writer: the goroutine that has
\* called Lock() and not yet Unlock() ("none" when there is none)
FreeMutex == [readers |-> 0, writer |-> "none"]

\* RLock() proceeds unless a writer holds the lock or waits for it
CanRLock(m) == m.writer = "none"
RLock(m) == [m EXCEPT !.readers = @ + 1]

\* Lock() first takes the writer slot, then waits for the read holds to drain
CanLock(m) == m.writer = "none"
Lock(m, p) == [m EXCEPT !.writer = p]
Drained(m) == m.readers = 0
Unlock(m) == [m EXCEPT !.writer = "none"]

\* read holds one call of EvmGasPriceDefault leaves behind: the RLock on entry
\* and the deferred RLock on return, once the environment gave no value
GasPriceReadHolds == IF lookupEnv("ETH_GAS_PRICE_DEFAULT", "ParseBigInt").ok THEN 0 ELSE 2

RECURSIVE RLockN(_, _)
RLockN(m, n) == IF n = 0 THEN m ELSE RLockN(RLock(m), n - 1)

\* ------------------------------------------------------- sequential calls
Procs == {"g1", "g2"}
NoRet == [op |-> "none"]

\* a getter is called and returns (or panics)
Call(g) ==
    /\ \A p \in Procs : pc[p] = "idle"
    /\ LET holds == IF g = "EvmGasPriceDefault" THEN GasPriceReadHolds ELSE 0
       IN  /\ persistMu.readers + holds <= MaxReaderCount
           /\ holds > 0 => CanRLock(persistMu)
           /\ persistMu' = RLockN(persistMu, holds)
    /\ ret' = [op |-> g, out |-> Getter(g)]
    /\ UNCHANGED <<Overrides, pg, env, gcfg, id, db, cll, down, agg, defaultSet, persistedCfg, orm, pc, local, res>>

\* Validate() reporting nothing once the resolver has been validated before
CallValidate_Once ==
    /\ \A p \in Procs : pc[p] = "idle"
    /\ LET holds == 2 * GasPriceReadHolds
       IN  /\ persistMu.readers + holds <= 2 * MaxReaderCount
           /\ holds > 0 => CanRLock(persistMu)
           /\ persistMu' = RLockN(persistMu, holds)
    /\ ret' = [op |-> "Validate", out |-> IF ret.op = "Validate" THEN Ok(<<>>) ELSE Validate]
    /\ UNCHANGED <<Overrides, pg, env, gcfg, id, db, cll, down, agg, defaultSet, persistedCfg, orm, pc, local, res>>

\* Validate() is called and returns (or panics); validate() reads the default
\* gas price twice
CallValidate ==
    /\ \A p \in Procs : pc[p] = "idle"
    /\ LET holds == 2 * GasPriceReadHolds
       IN  /\ persistMu.readers + holds <= 2 * MaxReaderCount
           /\ holds > 0 => CanRLock(persistMu)
           /\ persistMu' = RLockN(persistMu, holds)
    /\ ret' = [op |-> "Validate", out |-> Validate]
    /\ UNCHANGED <<Overrides, pg, env, gcfg, id, db, cll, down, agg, defaultSet, persistedCfg, orm, pc, local, res>>

\* ------------------------------------------------------------ input states
EnvKeys ==
    { "ETH_MAX_IN_FLIGHT_TRANSACTIONS", "ETH_MAX_GAS_PRICE_WEI", "ETH_MIN_GAS_PRICE_WEI",
      "ETH_GAS_LIMIT_DEFAULT", "ETH_GAS_PRICE_DEFAULT", "ETH_FINALITY_DEPTH",
      "ETH_HEAD_TRACKER_HISTORY_DEPTH", "ETH_RPC_DEFAULT_BATCH_SIZE",
      "BLOCK_HISTORY_ESTIMATOR_BATCH_SIZE", "BLOCK_HISTORY_ESTIMATOR_BLOCK_HISTORY_SIZE",
      "GAS_ESTIMATOR_MODE", "MIN_INCOMING_CONFIRMATIONS", "ETH_GAS_BUMP_TX_DEPTH",
      "ETH_GAS_BUMP_PERCENT", "BALANCE_MONITOR_ENABLED" }

EmptyEnv == [k \in EnvKeys |-> Absent]

\* evmtypes.ChainCfg with every field unset
EmptyChainCfg ==
    [ EvmMaxGasPriceWei |-> Nil, EvmGasLimitDefault |-> NullInt,
      EvmGasPriceDefault |-> Nil, EvmFinalityDepth |-> NullInt,
      EvmHeadTrackerHistoryDepth |-> NullInt,
      BlockHistoryEstimatorBlockHistorySize |-> NullInt,
      GasEstimatorMode |-> NullString, EvmGasBumpTxDepth |-> NullInt,
      EvmGasBumpPercent |-> NullInt, EvmRPCDefaultBatchSize |-> NullInt ]

IntFields ==
    { "EvmGasLimitDefault", "EvmFinalityDepth", "EvmHeadTrackerHistoryDepth",
      "BlockHistoryEstimatorBlockHistorySize", "EvmGasBumpTxDepth", "EvmGasBumpPercent",
      "EvmRPCDefaultBatchSize" }
PtrFields == {"EvmMaxGasPriceWei", "EvmGasPriceDefault"}
StringFields == {"GasEstimatorMode"}

\* the values one field of the persisted record may hold: unset, zero, non-zero
FieldValues(f) ==
    IF f \in IntFields THEN {NullInt, IntFrom(0), IntFrom(3)}
    ELSE IF f \in PtrFields THEN {Nil, Ptr(0), Ptr(3)}
    ELSE {NullString, StringFrom(<<>>), StringFrom(Str_FixedPrice)}

\* persisted records with at most one field set
ChainCfgs ==
    {EmptyChainCfg} \cup
    { [EmptyChainCfg EXCEPT ![f] = v] : f \in IntFields, v \in {IntFrom(0), IntFrom(3)} } \cup
    { [EmptyChainCfg EXCEPT ![f] = v] : f \in PtrFields, v \in {Ptr(0), Ptr(3)} } \cup
    { [EmptyChainCfg EXCEPT ![f] = v] :
          f \in StringFields, v \in {StringFrom(<<>>), StringFrom(Str_FixedPrice)} }

\* environments with at most one variable set, or the batch size together with
\* the RPC default batch size it falls back to
Envs ==
    {EmptyEnv} \cup
    { [EmptyEnv EXCEPT ![k] = Present(s)] : k \in EnvKeys, s \in EnvStrings } \cup
    { [EmptyEnv EXCEPT !["BLOCK_HISTORY_ESTIMATOR_BATCH_SIZE"] = Present(s),
                       !["ETH_RPC_DEFAULT_BATCH_SIZE"] = Present(<<"7">>)] :
          s \in EnvStrings }

\* chain IDs: two keys of the default table, an unknown small ID, and 2^64 + 1
ChainIDs == {BigID(0, 1), BigID(0, 10), BigID(0, 99), BigID(1, 1)}

GeneralConfigs ==
    [EthereumDisabled : BOOLEAN, ValidateErr : {FALSE}, OCRSane : {TRUE}]

\* the variable and the persisted field a getter reads
EnvKeyOf(g) ==
    CASE g = "EvmMaxInFlightTransactions" -> "ETH_MAX_IN_FLIGHT_TRANSACTIONS"
      [] g = "EvmMaxGasPriceWei" -> "ETH_MAX_GAS_PRICE_WEI"
      [] g = "EvmMinGasPriceWei" -> "ETH_MIN_GAS_PRICE_WEI"
      [] g = "EvmGasLimitDefault" -> "ETH_GAS_LIMIT_DEFAULT"
      [] g = "EvmGasPriceDefault" -> "ETH_GAS_PRICE_DEFAULT"
      [] g = "EvmFinalityDepth" -> "ETH_FINALITY_DEPTH"
      [] g = "EvmHeadTrackerHistoryDepth" -> "ETH_HEAD_TRACKER_HISTORY_DEPTH"
      [] g = "EvmDefaultBatchSize" -> "ETH_RPC_DEFAULT_BATCH_SIZE"
      [] g = "BlockHistoryEstimatorBatchSize" -> "BLOCK_HISTORY_ESTIMATOR_BATCH_SIZE"
      [] g = "BlockHistoryEstimatorBlockHistorySize" -> "BLOCK_HISTORY_ESTIMATOR_BLOCK_HISTORY_SIZE"
      [] g = "GasEstimatorMode" -> "GAS_ESTIMATOR_MODE"
      [] g = "MinIncomingConfirmations" -> "MIN_INCOMING_CONFIRMATIONS"
      [] g = "EvmGasBumpTxDepth" -> "ETH_GAS_BUMP_TX_DEPTH"
      [] g = "EvmGasBumpPercent" -> "ETH_GAS_BUMP_PERCENT"
      [] g = "EvmRPCDefaultBatchSize" -> "ETH_RPC_DEFAULT_BATCH_SIZE"
      [] g = "BalanceMonitorEnabled" -> "BALANCE_MONITOR_ENABLED"

ParserOf(g) ==
    CASE g \in {"EvmMaxInFlightTransactions", "EvmDefaultBatchSize",
                "BlockHistoryEstimatorBatchSize", "MinIncomingConfirmations",
                "EvmRPCDefaultBatchSize"} -> "ParseUint32"
      [] g \in {"EvmMaxGasPriceWei", "EvmMinGasPriceWei", "EvmGasPriceDefault"} -> "ParseBigInt"
      [] g \in {"EvmGasLimitDefault", "EvmFinalityDepth", "EvmHeadTrackerHistoryDepth"}
            -> "ParseUint64"
      [] g \in {"BlockHistoryEstimatorBlockHistorySize", "EvmGasBumpTxDepth",
                "EvmGasBumpPercent"} -> "ParseUint16"
      [] g = "GasEstimatorMode" -> "ParseString"
      [] g = "BalanceMonitorEnabled" -> "ParseBool"

\* the getters that have a field of their own in the persisted record
PersistedGetters == IntFields \cup PtrFields \cup StringFields

\* the field of the default set behind a getter
DefaultOf(g) ==
    CASE g = "EvmMaxInFlightTransactions" -> defaultSet.maxInFlightTransactions
      [] g = "EvmMaxGasPriceWei" -> defaultSet.maxGasPriceWei
      [] g = "EvmMinGasPriceWei" -> defaultSet.minGasPriceWei
      [] g = "EvmGasLimitDefault" -> defaultSet.gasLimitDefault
      [] g = "EvmGasPriceDefault" -> defaultSet.gasPriceDefault
      [] g = "EvmFinalityDepth" -> defaultSet.finalityDepth
      [] g = "EvmHeadTrackerHistoryDepth" -> defaultSet.headTrackerHistoryDepth
      [] g = "EvmDefaultBatchSize" -> defaultSet.rpcDefaultBatchSize
      [] g = "BlockHistoryEstimatorBatchSize" -> defaultSet.blockHistoryEstimatorBatchSize
      [] g = "BlockHistoryEstimatorBlockHistorySize" -> defaultSet.blockHistoryEstimatorBlockHistorySize
      [] g = "GasEstimatorMode" -> defaultSet.gasEstimatorMode
      [] g = "MinIncomingConfirmations" -> defaultSet.minIncomingConfirmations
      [] g = "EvmGasBumpTxDepth" -> defaultSet.gasBumpTxDepth
      [] g = "EvmGasBumpPercent" -> defaultSet.gasBumpPercent
      [] g = "EvmRPCDefaultBatchSize" -> defaultSet.rpcDefaultBatchSize
      [] g = "BalanceMonitorEnabled" -> defaultSet.balanceMonitorEnabled

\* the resolver's part of the state once it is constructed
ResolverConstructed(e, cfg, gc, chainID) ==
    /\ env = e
    /\ gcfg = gc
    /\ id = chainID
    /\ defaultSet = NewChainScopedConfig(chainID)
    /\ persistedCfg = cfg
    /\ persistMu = FreeMutex
    /\ orm = [stored |-> cfg.EvmGasPriceDefault, stores |-> 0]
    /\ ret = NoRet
    /\ pc = [p \in Procs |-> "idle"]
    /\ local = [p \in Procs |-> 0]
    /\ res = [p \in Procs |-> NoRet]

\* no chain collection is loaded and none can be
NoDB == [chains |-> <<>>, nodes |-> {}, chainsErr |-> FALSE, nodesErr |-> FALSE]
NotBuilt == [st |-> "unbuilt"]
NoAgg == [op |-> "none"]
NoSchema == [st |-> "none"]
NoOverrides == [st |-> "none"]
NoRegistry ==
    /\ db = NoDB
    /\ cll = NotBuilt
    /\ down = {}
    /\ agg = NoAgg
    /\ pg = NoSchema
    /\ Overrides = NoOverrides

\* a resolver alone, once constructed
Constructed(e, cfg, gc, chainID) ==
    /\ NoRegistry
    /\ ResolverConstructed(e, cfg, gc, chainID)

SetKeys(e) == {k \in EnvKeys : e[k].set}
SetFields(cfg) == {f \in PersistedGetters : cfg[f] # EmptyChainCfg[f]}

\* a resolver over one parameter at a time: the environment variable and the
\* persisted field that are set belong to the same getter, or they are the
\* batch size and the persisted RPC default batch size; connectivity is
\* enabled or disabled over every such input
Init ==
    \E e \in Envs, cfg \in ChainCfgs, gc \in GeneralConfigs, chainID \in ChainIDs :
        /\ \A k \in SetKeys(e), f \in SetFields(cfg) :
               \/ EnvKeyOf(f) = k
               \/ k = "BLOCK_HISTORY_ESTIMATOR_BATCH_SIZE" /\ f = "EvmRPCDefaultBatchSize"
        /\ Constructed(e, cfg, gc, chainID)

Next == \E g \in Getters : Call(g)

Spec == Init /\ [][Next]_vars

\* --------------------------------------- EvmGasPriceDefault, step by step
GasPrices == 0..MaxGasPrice

\* read holds the calls under way will still take
RECURSIVE SumHolds(_)
SumHolds(S) ==
    IF S = {} THEN 0
    ELSE LET p == CHOOSE q \in S : TRUE
         IN  (CASE pc[p] = "gpd_rlock" -> 2
                [] pc[p] \in {"gpd_read", "gpd_defer"} -> 1
                [] OTHER -> 0) + SumHolds(S \ {p})
PendingHolds == SumHolds(Procs)

\* lines 263-266: the environment value, when there is one, is returned at once
ReadEnter(p) ==
    /\ pc[p] = "idle"
    /\ IF lookupEnv("ETH_GAS_PRICE_DEFAULT", "ParseBigInt").ok
       THEN /\ res' = [res EXCEPT ![p] =
                         [op |-> "EvmGasPriceDefault",
                          out |-> TypeAssert(lookupEnv("ETH_GAS_PRICE_DEFAULT", "ParseBigInt").val,
                                             "bigint")]]
            /\ pc' = pc
       ELSE /\ persistMu.readers + PendingHolds + 2 <= MaxReaderCount
            /\ pc' = [pc EXCEPT ![p] = "gpd_rlock"]
            /\ res' = res
    /\ UNCHANGED <<Overrides, pg, env, gcfg, id, db, cll, down, agg, defaultSet, persistedCfg, persistMu, orm, ret, local>>

\* EvmGasPriceDefault reading without waiting for the writer
ReadRLock_NoWait(p) ==
    /\ pc[p] = "gpd_rlock"
    /\ persistMu' = RLock(persistMu)
    /\ pc' = [pc EXCEPT ![p] = "gpd_read"]
    /\ UNCHANGED <<Overrides, pg, env, gcfg, id, db, cll, down, agg, defaultSet, persistedCfg, orm, ret, local, res>>

\* line 267: c.persistMu.RLock()
ReadRLock(p) ==
    /\ pc[p] = "gpd_rlock"
    /\ CanRLock(persistMu)
    /\ persistMu' = RLock(persistMu)
    /\ pc' = [pc EXCEPT ![p] = "gpd_read"]
    /\ UNCHANGED <<Overrides, pg, env, gcfg, id, db, cll, down, agg, defaultSet, persistedCfg, orm, ret, local, res>>

\* lines 269-273: the persisted field, else the default set
ReadField(p) ==
    /\ pc[p] = "gpd_read"
    /\ local' = [local EXCEPT ![p] = GasPriceDefaultLocked.v]
    /\ pc' = [pc EXCEPT ![p] = "gpd_defer"]
    /\ UNCHANGED <<Overrides, pg, env, gcfg, id, db, cll, down, agg, defaultSet, persistedCfg, persistMu, orm, ret, res>>

\* line 268, run on return: defer c.persistMu.RLock()
ReadDefer(p) ==
    /\ pc[p] = "gpd_defer"
    /\ CanRLock(persistMu)
    /\ persistMu' = RLock(persistMu)
    /\ pc' = [pc EXCEPT ![p] = "idle"]
    /\ res' = [res EXCEPT ![p] = [op |-> "EvmGasPriceDefault", out |-> Ok(local[p])]]
    /\ UNCHANGED <<Overrides, pg, env, gcfg, id, db, cll, down, agg, defaultSet, persistedCfg, orm, ret, local>>

\* ------------------------------------ SetEvmGasPriceDefault, step by step
\* Set calls under way
Setting == {p \in Procs : pc[p] \in {"set_check", "set_lock", "set_wait", "set_write", "set_store"}}

SetCall(p, v) ==
    /\ pc[p] = "idle"
    /\ orm.stores + Cardinality(Setting) < MaxStores
    /\ pc' = [pc EXCEPT ![p] = "set_check"]
    /\ local' = [local EXCEPT ![p] = v]
    /\ UNCHANGED <<Overrides, pg, env, gcfg, id, db, cll, down, agg, defaultSet, persistedCfg, persistMu, orm, ret, res>>

SetResult(v, err) == [op |-> "SetEvmGasPriceDefault", v |-> v, err |-> err]

\* the bounds check without its lower half
SetCheck_NoMin(p) ==
    /\ pc[p] = "set_check"
    /\ IF local[p] > EvmMaxGasPriceWei.v
       THEN /\ res' = [res EXCEPT ![p] = SetResult(local[p], "above")]
            /\ pc' = [pc EXCEPT ![p] = "idle"]
       ELSE /\ res' = res
            /\ pc' = [pc EXCEPT ![p] = "set_lock"]
    /\ UNCHANGED <<Overrides, pg, env, gcfg, id, db, cll, down, agg, defaultSet, persistedCfg, persistMu, orm, ret, local>>

\* the bounds check without its upper half
SetCheck_NoMax(p) ==
    /\ pc[p] = "set_check"
    /\ IF local[p] < EvmMinGasPriceWei.v
       THEN /\ res' = [res EXCEPT ![p] = SetResult(local[p], "below")]
            /\ pc' = [pc EXCEPT ![p] = "idle"]
       ELSE /\ res' = res
            /\ pc' = [pc EXCEPT ![p] = "set_lock"]
    /\ UNCHANGED <<Overrides, pg, env, gcfg, id, db, cll, down, agg, defaultSet, persistedCfg, persistMu, orm, ret, local>>

\* lines 278-285: the bounds check
SetCheck(p) ==
    /\ pc[p] = "set_check"
    /\ IF local[p] < EvmMinGasPriceWei.v
       THEN /\ res' = [res EXCEPT ![p] = SetResult(local[p], "below")]
            /\ pc' = [pc EXCEPT ![p] = "idle"]
       ELSE IF local[p] > EvmMaxGasPriceWei.v
       THEN /\ res' = [res EXCEPT ![p] = SetResult(local[p], "above")]
            /\ pc' = [pc EXCEPT ![p] = "idle"]
       ELSE /\ res' = res
            /\ pc' = [pc EXCEPT ![p] = "set_lock"]
    /\ UNCHANGED <<Overrides, pg, env, gcfg, id, db, cll, down, agg, defaultSet, persistedCfg, persistMu, orm, ret, local>>

\* line 286: c.persistMu.Lock(), taking the writer slot
SetLock(p) ==
    /\ pc[p] = "set_lock"
    /\ CanLock(persistMu)
    /\ persistMu' = Lock(persistMu, p)
    /\ pc' = [pc EXCEPT ![p] = "set_wait"]
    /\ UNCHANGED <<Overrides, pg, env, gcfg, id, db, cll, down, agg, defaultSet, persistedCfg, orm, ret, local, res>>

\* line 286: c.persistMu.Lock(), waiting for the read holds to drain
SetDrain(p) ==
    /\ pc[p] = "set_wait"
    /\ Drained(persistMu)
    /\ pc' = [pc EXCEPT ![p] = "set_write"]
    /\ UNCHANGED <<Overrides, pg, env, gcfg, id, db, cll, down, agg, defaultSet, persistedCfg, persistMu, orm, ret, local, res>>

\* line 288: c.persistedCfg.EvmGasPriceDefault = value
SetWrite(p) ==
    /\ pc[p] = "set_write"
    /\ persistedCfg' = [persistedCfg EXCEPT !.EvmGasPriceDefault = Ptr(local[p])]
    /\ pc' = [pc EXCEPT ![p] = "set_store"]
    /\ UNCHANGED <<Overrides, pg, env, gcfg, id, db, cll, down, agg, defaultSet, persistMu, orm, ret, local, res>>

\* chainScopedConfigORM.store: the value is stored durably, or an error comes back
store(v, ok) ==
    [orm EXCEPT !.stores = @ + 1, !.stored = IF ok THEN Ptr(v) ELSE @]

\* lines 291, 287: return c.orm.store(...), then the deferred Unlock()
SetStore(p) ==
    /\ pc[p] = "set_store"
    /\ \E ok \in BOOLEAN :
           /\ orm' = store(local[p], ok)
           /\ res' = [res EXCEPT ![p] = SetResult(local[p], IF ok THEN "nil" ELSE "store")]
    /\ persistMu' = Unlock(persistMu)
    /\ pc' = [pc EXCEPT ![p] = "idle"]
    /\ UNCHANGED <<Overrides, pg, env, gcfg, id, db, cll, down, agg, defaultSet, persistedCfg, ret, local>>

\* a goroutine inside a call takes its next step
Step(p) ==
    \/ ReadRLock(p)
    \/ ReadField(p)
    \/ ReadDefer(p)
    \/ SetCheck(p)
    \/ SetLock(p)
    \/ SetDrain(p)
    \/ SetWrite(p)
    \/ SetStore(p)

LockEnvs ==
    {EmptyEnv, [EmptyEnv EXCEPT !["ETH_GAS_PRICE_DEFAULT"] = Present(<<"7">>)]}

LockInit ==
    \E e \in LockEnvs, gp \in {Nil, Ptr(2)} :
        Constructed(e, [EmptyChainCfg EXCEPT !.EvmGasPriceDefault = gp],
                    [EthereumDisabled |-> FALSE, ValidateErr |-> FALSE, OCRSane |-> TRUE],
                    BigID(0, 99))

LockNext ==
    \E p \in Procs :
        \/ ReadEnter(p)
        \/ \E v \in GasPrices : SetCall(p, v)
        \/ Step(p)

LockSpec == LockInit /\ [][LockNext]_vars

\* the Go scheduler runs every runnable goroutine, and a goroutine blocked on
\* the mutex is woken when the mutex can be taken
FairLockSpec == LockSpec /\ \A p \in Procs : SF_vars(Step(p))

\* ------------------------------------------------ Validate() on a resolver
\* resolvers whose parameters are moved, each on its own, to either side of the
\* invariants Validate() checks (the defaults are those of the fallback set)
ValidateEnvs ==
    { [EmptyEnv EXCEPT !["MIN_INCOMING_CONFIRMATIONS"] = mic,
                       !["ETH_MAX_IN_FLIGHT_TRANSACTIONS"] = mif,
                       !["ETH_FINALITY_DEPTH"] = fd] :
          mic \in {Absent, Present(<<"0">>)},
          mif \in {Absent, Present(<<"0">>)},
          fd \in {Absent, Present(<<"7">>)} }

ValidateChainCfgs ==
    { [EmptyChainCfg EXCEPT !.EvmGasBumpPercent = bp, !.EvmGasBumpTxDepth = td,
                            !.EvmGasPriceDefault = gp, !.EvmFinalityDepth = fd,
                            !.GasEstimatorMode = gm,
                            !.BlockHistoryEstimatorBlockHistorySize = hs] :
          bp \in {NullInt, IntFrom(3)},
          td \in {NullInt, IntFrom(7)},
          gp \in {Nil, Ptr(0), Ptr(4)},
          fd \in {NullInt, IntFrom(0), IntFrom(15)},
          gm \in {NullString, StringFrom(Str_FixedPrice)},
          hs \in {NullInt, IntFrom(0)} }

ValidateInit ==
    \E e \in ValidateEnvs, cfg \in ValidateChainCfgs,
       gc \in [EthereumDisabled : BOOLEAN, ValidateErr : BOOLEAN, OCRSane : BOOLEAN] :
        Constructed(e, cfg, gc, BigID(0, 99))

ValidateNext == CallValidate

ValidateSpec == ValidateInit /\ [][ValidateNext]_vars

\* ========================================================= chain collection
\* most chain records in the evm_chains table
MaxChains == 2

\* ------------------------------------------------ (*big.Int).String(), Cmp()
Pow64Dec ==
    <<"1", "8", "4", "4", "6", "7", "4", "4", "0", "7",
      "3", "7", "0", "9", "5", "5", "1", "6", "1", "6">>

DigitChar(d) == CHOOSE c \in Digits : DigitVal(c) = d

\* decimal digits of a natural number
RECURSIVE Dec(_)
Dec(n) == IF n < 10 THEN <<DigitChar(n)>> ELSE Append(Dec(n \div 10), DigitChar(n % 10))

\* sum of two decimal digit strings, with a carry
RECURSIVE AddDec(_, _, _)
AddDec(a, b, carry) ==
    IF a = <<>> /\ b = <<>>
    THEN IF carry = 0 THEN <<>> ELSE <<DigitChar(carry)>>
    ELSE LET da == IF a = <<>> THEN 0 ELSE DigitVal(a[Len(a)])
             db0 == IF b = <<>> THEN 0 ELSE DigitVal(b[Len(b)])
             ra == IF a = <<>> THEN <<>> ELSE SubSeq(a, 1, Len(a) - 1)
             rb == IF b = <<>> THEN <<>> ELSE SubSeq(b, 1, Len(b) - 1)
             sum == da + db0 + carry
         IN  Append(AddDec(ra, rb, sum \div 10), DigitChar(sum % 10))

\* id.String(): the decimal text of hi * 2^64 + lo
RECURSIVE String(_)
String(x) ==
    IF x.hi = 0 THEN Dec(x.lo)
    ELSE AddDec(String(BigID(x.hi - 1, x.lo)), Pow64Dec, 0)

\* x.Cmp(y)
Cmp(x, y) ==
    IF x.hi < y.hi THEN 0 - 1
    ELSE IF x.hi > y.hi THEN 1
    ELSE IF x.lo < y.lo THEN 0 - 1
    ELSE IF x.lo > y.lo THEN 1
    ELSE 0

\* IsOptimism comparing the low 64 bits of the identity only
IsOptimism_Low64(x) == Int64(x) = 10 \/ Int64(x) = 69

\* ------------------------------------------------------- types.IsL2 & co.
IsArbitrum(x) == Cmp(x, BigID(0, 42161)) = 0 \/ Cmp(x, BigID(0, 421611)) = 0
IsOptimism(x) == Cmp(x, BigID(0, 10)) = 0 \/ Cmp(x, BigID(0, 69)) = 0
IsL2(x) == IsOptimism(x) \/ IsArbitrum(x)

\* ------------------------------------------------------------------ errors
NilErr == [kind |-> "nil"]
NoChain == [nil |-> TRUE]

\* the error a chain's own operation returns
ChildErr(c, op) == [kind |-> "chain", op |-> op, id |-> c.id]
\* errors.Wrapf(err, "chain with ID %d is not ready", id)
NotReady(cause, i) == [kind |-> "not ready", id |-> i, cause |-> cause]
\* errors.Errorf("chain not found with id %d", id)
NotFound(i) == [kind |-> "not found", id |-> i]
BuildErr(rec) == [kind |-> "build", id |-> rec.ID]
DBErr(table) == [kind |-> "db", table |-> table]

\* ------------------------------------------------------------- one chain
\* newChain: fails on a node with a malformed URL
newChain(rec) ==
    IF \E n \in rec.Nodes : n.bad
    THEN [chain |-> NoChain, err |-> BuildErr(rec)]
    ELSE [chain |-> [nil |-> FALSE, id |-> rec.ID], err |-> NilErr]

\* c.Start(), c.Close(), c.Healthy(), c.Ready()
ChildOp(c, op) == IF c.id \in down THEN ChildErr(c, op) ELSE NilErr

\* the loop keying the map by the low 64 bits of the identity
RECURSIVE BuildChains_Low64Key(_, _, _)
BuildChains_Low64Key(dbchains, chains, err) ==
    IF dbchains = <<>> THEN [chains |-> chains, err |-> err]
    ELSE LET r == newChain(Head(dbchains))
         IN  IF r.err # NilErr
             THEN BuildChains_Low64Key(Tail(dbchains), chains, Combine(err, <<r.err>>))
             ELSE BuildChains_Low64Key(Tail(dbchains),
                                       (String(BigID(0, Int64(r.chain.id))) :> r.chain) @@ chains,
                                       err)

\* the loop giving up at the first record that fails to build
RECURSIVE BuildChains_AbortOnError(_, _, _)
BuildChains_AbortOnError(dbchains, chains, err) ==
    IF dbchains = <<>> THEN [chains |-> chains, err |-> err]
    ELSE LET r == newChain(Head(dbchains))
         IN  IF r.err # NilErr
             THEN [chains |-> chains, err |-> Combine(err, <<r.err>>)]
             ELSE BuildChains_AbortOnError(Tail(dbchains),
                                           (String(r.chain.id) :> r.chain) @@ chains, err)

\* --------------------------------------------------- NewChainCollection
\* lines 130-139: the loop over the records
RECURSIVE BuildChains(_, _, _)
BuildChains(dbchains, chains, err) ==
    IF dbchains = <<>> THEN [chains |-> chains, err |-> err]
    ELSE LET r == newChain(Head(dbchains))
         IN  IF r.err # NilErr
             THEN BuildChains(Tail(dbchains), chains, Combine(err, <<r.err>>))
             ELSE BuildChains(Tail(dbchains), (String(r.chain.id) :> r.chain) @@ chains, err)

NewChainCollection(gc, dbchains) ==
    LET built == BuildChains(dbchains, <<>>, <<>>)
    IN  [cll |-> [st |-> "ok", defaultID |-> gc.DefaultChainID, chains |-> built.chains],
         err |-> built.err]

\* lines 117-123: every record gets the nodes whose EVMChainID compares equal
WithNodes(dbchains, nodes) ==
    [i \in 1..Len(dbchains) |->
        [ID |-> dbchains[i], Nodes |-> {n \in nodes : Cmp(n.EVMChainID, dbchains[i]) = 0}]]

LoadResult(err, finds) == [op |-> "LoadChainCollection", err |-> err, finds |-> finds]

\* LoadChainCollection reading the chain records before it tests the flag
LoadChainCollection_FindFirst ==
    /\ cll = NotBuilt
    /\ IF db.chainsErr
       THEN /\ cll' = [st |-> "nil"]
            /\ ret' = LoadResult(<<DBErr("evm_chains")>>, 1)
       ELSE IF gcfg.EthereumDisabled
       THEN /\ cll' = [st |-> "ok", defaultID |-> Nil, chains |-> <<>>]
            /\ ret' = LoadResult(<<>>, 1)
       ELSE IF db.nodesErr
       THEN /\ cll' = [st |-> "nil"]
            /\ ret' = LoadResult(<<DBErr("nodes")>>, 2)
       ELSE LET r == NewChainCollection(gcfg, WithNodes(db.chains, db.nodes))
            IN  /\ cll' = r.cll
                /\ ret' = LoadResult(r.err, 2)
    /\ UNCHANGED <<Overrides, pg, env, gcfg, id, defaultSet, persistedCfg, persistMu, orm, pc, local, res,
                   db, down, agg>>

LoadChainCollection ==
    /\ cll = NotBuilt
    /\ IF gcfg.EthereumDisabled
       THEN /\ cll' = [st |-> "ok", defaultID |-> Nil, chains |-> <<>>]
            /\ ret' = LoadResult(<<>>, 0)
       ELSE IF db.chainsErr
       THEN /\ cll' = [st |-> "nil"]
            /\ ret' = LoadResult(<<DBErr("evm_chains")>>, 1)
       ELSE IF db.nodesErr
       THEN /\ cll' = [st |-> "nil"]
            /\ ret' = LoadResult(<<DBErr("nodes")>>, 2)
       ELSE LET r == NewChainCollection(gcfg, WithNodes(db.chains, db.nodes))
            IN  /\ cll' = r.cll
                /\ ret' = LoadResult(r.err, 2)
    /\ UNCHANGED <<Overrides, pg, env, gcfg, id, defaultSet, persistedCfg, persistMu, orm, pc, local, res,
                   db, down, agg>>

\* ------------------------------------------------ lookups on the collection
\* Get(id): the chain, the error, and the calls made on chains on the way
GetResult(chain, err, calls) == [st |-> "ok", chain |-> chain, err |-> err, calls |-> calls]

\* Get(id) returning the chain without asking whether it is ready
Get_NoReadyCheck(i) ==
    IF i.nil THEN Panic
    ELSE IF String(i.v) \in DOMAIN cll.chains
    THEN GetResult(cll.chains[String(i.v)], NilErr, <<>>)
    ELSE GetResult(NoChain, NotFound(i.v), <<>>)

\* Get(id) keying the index by the low 64 bits of the identity
Get_Low64Key(i) ==
    IF i.nil THEN Panic
    ELSE IF Dec(Int64(i.v)) \in DOMAIN cll.chains
    THEN LET c == cll.chains[Dec(Int64(i.v))]
             err == ChildOp(c, "Ready")
             calls == <<[id |-> c.id, op |-> "Ready", err |-> err]>>
         IN  IF err # NilErr
             THEN GetResult(NoChain, NotReady(err, i.v), calls)
             ELSE GetResult(c, NilErr, calls)
    ELSE GetResult(NoChain, NotFound(i.v), <<>>)

Get(i) ==
    IF i.nil THEN Panic
    ELSE IF String(i.v) \in DOMAIN cll.chains
    THEN LET c == cll.chains[String(i.v)]
             err == ChildOp(c, "Ready")
             calls == <<[id |-> c.id, op |-> "Ready", err |-> err]>>
         IN  IF err # NilErr
             THEN GetResult(NoChain, NotReady(err, i.v), calls)
             ELSE GetResult(c, NilErr, calls)
    ELSE GetResult(NoChain, NotFound(i.v), <<>>)

Default == Get(cll.defaultID)

\* all orders in which a map of the given keys may be ranged over
Orders(keys) ==
    {s \in [1..Cardinality(keys) -> keys] : \A i, j \in DOMAIN s : i # j => s[i] # s[j]}

\* Chains(): the chains of the map, in the order the range statement yields them
Chains == {[i \in DOMAIN s |-> cll.chains[s[i]]] : s \in Orders(DOMAIN cll.chains)}

ChainCount == Cardinality(DOMAIN cll.chains)

\* the caller holds a collection and no lifecycle call is under way
Usable == cll.st = "ok" /\ agg = NoAgg

\* Get(id) dropping from the index a chain it found not ready
CallGet_EvictNotReady(i) ==
    /\ Usable
    /\ ret' = [op |-> "Get", id |-> i, at |-> down, out |-> Get(i)]
    /\ cll' = IF Get(i).st = "ok" /\ Get(i).err.kind = "not ready"
              THEN [cll EXCEPT !.chains =
                        [k \in DOMAIN cll.chains \ {String(i.v)} |-> cll.chains[k]]]
              ELSE cll
    /\ UNCHANGED <<Overrides, pg, env, gcfg, id, defaultSet, persistedCfg, persistMu, orm, pc, local, res,
                   db, down, agg>>

CallGet(i) ==
    /\ Usable
    /\ ret' = [op |-> "Get", id |-> i, at |-> down, out |-> Get(i)]
    /\ UNCHANGED <<Overrides, pg, env, gcfg, id, defaultSet, persistedCfg, persistMu, orm, pc, local, res,
                   db, cll, down, agg>>

CallDefault ==
    /\ Usable
    /\ ret' = [op |-> "Default", at |-> down, out |-> Default]
    /\ UNCHANGED <<Overrides, pg, env, gcfg, id, defaultSet, persistedCfg, persistMu, orm, pc, local, res,
                   db, cll, down, agg>>

CallChains ==
    /\ Usable
    /\ \E c \in Chains : ret' = [op |-> "Chains", out |-> c]
    /\ UNCHANGED <<Overrides, pg, env, gcfg, id, defaultSet, persistedCfg, persistMu, orm, pc, local, res,
                   db, cll, down, agg>>

CallChainCount ==
    /\ Usable
    /\ ret' = [op |-> "ChainCount", out |-> ChainCount]
    /\ UNCHANGED <<Overrides, pg, env, gcfg, id, defaultSet, persistedCfg, persistMu, orm, pc, local, res,
                   db, cll, down, agg>>

\* ------------------------------------- Start / Close / Healthy / Ready
LifecycleOps == {"Start", "Close", "Healthy", "Ready"}

\* the call begins: cll.Chains() fixes the order of the loop
AggCall(op) ==
    /\ Usable
    /\ \E c \in Chains : agg' = [op |-> op, todo |-> c, err |-> <<>>, calls |-> <<>>]
    /\ ret' = NoRet
    /\ UNCHANGED <<Overrides, pg, env, gcfg, id, defaultSet, persistedCfg, persistMu, orm, pc, local, res,
                   db, cll, down>>

\* the loop stopping at the first chain that returns an error
AggChild_StopAtError ==
    /\ agg # NoAgg
    /\ agg.todo # <<>>
    /\ LET c == Head(agg.todo)
           e == ChildOp(c, agg.op)
       IN  agg' = [agg EXCEPT !.todo = IF e = NilErr THEN Tail(@) ELSE <<>>,
                              !.err = Combine(@, IF e = NilErr THEN <<>> ELSE <<e>>),
                              !.calls = Append(@, [id |-> c.id, op |-> agg.op, err |-> e])]
    /\ UNCHANGED <<Overrides, pg, env, gcfg, id, defaultSet, persistedCfg, persistMu, orm, ret, pc, local,
                   res, db, cll, down>>

\* one turn of the loop: err = multierr.Combine(err, c.Op())
AggChild ==
    /\ agg # NoAgg
    /\ agg.todo # <<>>
    /\ LET c == Head(agg.todo)
           e == ChildOp(c, agg.op)
       IN  agg' = [agg EXCEPT !.todo = Tail(@),
                              !.err = Combine(@, IF e = NilErr THEN <<>> ELSE <<e>>),
                              !.calls = Append(@, [id |-> c.id, op |-> agg.op, err |-> e])]
    /\ UNCHANGED <<Overrides, pg, env, gcfg, id, defaultSet, persistedCfg, persistMu, orm, ret, pc, local,
                   res, db, cll, down>>

\* the loop is over: return
AggReturn ==
    /\ agg # NoAgg
    /\ agg.todo = <<>>
    /\ ret' = [op |-> agg.op, out |-> agg.err, calls |-> agg.calls]
    /\ agg' = NoAgg
    /\ UNCHANGED <<Overrides, pg, env, gcfg, id, defaultSet, persistedCfg, persistMu, orm, pc, local, res,
                   db, cll, down>>

\* a registered chain starts or stops failing, at any moment
ChildChange(x) ==
    /\ cll.st = "ok"
    /\ String(x) \in DOMAIN cll.chains
    /\ down' = IF x \in down THEN down \ {x} ELSE down \cup {x}
    /\ UNCHANGED <<Overrides, pg, env, gcfg, id, defaultSet, persistedCfg, persistMu, orm, ret, pc, local,
                   res, db, cll, agg>>

\* ------------------------------------------------------------------- inputs
\* identities of chain records: two small ones and 2^64 + 1
RegIDs == {BigID(0, 1), BigID(0, 10), BigID(1, 1)}

\* identities asked for: the records', an unregistered one, and nil
AskedIDs == {Ptr(x) : x \in RegIDs \cup {BigID(0, 99)}} \cup {Nil}

\* the evm_chains table: records with distinct identities (the primary key)
ChainLists ==
    UNION {Orders(S) : S \in {T \in SUBSET RegIDs : Cardinality(T) <= MaxChains}}

\* the nodes table: one node per identity, those of `bad` with a malformed URL
NodesWith(bad) == {[EVMChainID |-> x, bad |-> x \in bad] : x \in RegIDs}

PlainDB ==
    [chains |-> <<BigID(0, 1)>>, nodes |-> NodesWith({}), chainsErr |-> FALSE,
     nodesErr |-> FALSE]

\* any list of records, any of them with a malformed node URL; or a table that
\* cannot be read
DBs ==
    UNION {{[PlainDB EXCEPT !.chains = c, !.nodes = NodesWith(b)] :
                b \in SUBSET {c[i] : i \in DOMAIN c}} : c \in ChainLists}
        \cup {[PlainDB EXCEPT !.chainsErr = ce, !.nodesErr = ne] : ce, ne \in BOOLEAN}

RegistryConfigs ==
    [EthereumDisabled : BOOLEAN, ValidateErr : {FALSE}, OCRSane : {TRUE},
     DefaultChainID : {Ptr(x) : x \in {BigID(0, 1), BigID(1, 1)}}]

\* the resolver of the default chain: valid, with a finality depth above the
\* history depth, or with the finality depth given by the environment
PlainResolver == [e |-> EmptyEnv, cfg |-> EmptyChainCfg]

RegistryResolvers ==
    { PlainResolver,
      [e |-> EmptyEnv, cfg |-> [EmptyChainCfg EXCEPT !.EvmFinalityDepth = IntFrom(15)]],
      [e |-> [EmptyEnv EXCEPT !["ETH_FINALITY_DEPTH"] = Present(<<"7">>)],
       cfg |-> EmptyChainCfg] }

RegistryInit ==
    \E d \in DBs, gc \in RegistryConfigs, r \in RegistryResolvers :
        /\ r = PlainResolver \/ d = PlainDB
        /\ db = d
        /\ cll = NotBuilt
        /\ down = {}
        /\ agg = NoAgg
        /\ pg = NoSchema
        /\ Overrides = NoOverrides
        /\ ResolverConstructed(r.e, r.cfg, gc, BigID(0, 99))

RegistryNext ==
    \/ LoadChainCollection
    \/ \E i \in AskedIDs : CallGet(i)
    \/ CallDefault
    \/ CallChains
    \/ CallChainCount
    \/ \E op \in LifecycleOps : AggCall(op)
    \/ AggChild
    \/ AggReturn
    \/ \E x \in RegIDs : ChildChange(x)
    \/ (Usable /\ CallValidate)

RegistrySpec == RegistryInit /\ [][RegistryNext]_vars

\* ------------------------------------------------------------ classification
\* largest low word among the small identities classified
MaxSmallID == 70

\* identities classified: the small ones, the two Arbitrum identities with
\* their neighbours, and the identities 2^64 above each of them
ClassIDs ==
    {BigID(hi, lo) : hi \in 0..1,
                     lo \in (0..MaxSmallID) \cup {42160, 42161, 42162, 421610, 421611, 421612}}

\* Chain.IsOptimism(), Chain.IsArbitrum(), Chain.IsL2() on the chain with this ID
Classify ==
    /\ ret' = [op |-> "Classify",
               out |-> [IsOptimism |-> IsOptimism(id), IsArbitrum |-> IsArbitrum(id),
                        IsL2 |-> IsL2(id)]]
    /\ UNCHANGED <<Overrides, pg, env, gcfg, id, defaultSet, persistedCfg, persistMu, orm, pc, local, res,
                   db, cll, down, agg>>

ClassifyInit ==
    \E x \in ClassIDs :
        Constructed(EmptyEnv, EmptyChainCfg,
                    [EthereumDisabled |-> FALSE, ValidateErr |-> FALSE, OCRSane |-> TRUE], x)

ClassifyNext == Classify

ClassifySpec == ClassifyInit /\ [][ClassifyNext]_vars

\* ====================================================== migration 0056
\* the tables that get an evm_chain_id column
ChainTables == {"eth_txes", "log_broadcasts", "heads", "offchainreporting_oracle_specs"}

\* SQL statements
CreateTable(t, refs) == [k |-> "CreateTable", t |-> t, refs |-> refs]
DropTable(t) == [k |-> "DropTable", t |-> t]
AddColumn(t) == [k |-> "AddColumn", t |-> t]
DropColumn(t) == [k |-> "DropColumn", t |-> t]
SetNotNull(t) == [k |-> "SetNotNull", t |-> t]
Insert(t) == [k |-> "Insert", t |-> t]
Update(t) == [k |-> "Update", t |-> t]
CreateIndex(n, t, chain) == [k |-> "CreateIndex", n |-> n, t |-> t, chain |-> chain]
DropIndexIfExists(n) == [k |-> "DropIndexIfExists", n |-> n]

\* lines 67-122; chain is TRUE for an index over the evm_chain_id column
up56 ==
    << CreateTable("evm_chains", FALSE),
       CreateTable("nodes", TRUE),
       CreateIndex("idx_nodes_evm_chain_id", "nodes", TRUE),
       CreateIndex("idx_nodes_unique_name", "nodes", FALSE),
       AddColumn("eth_txes"),
       AddColumn("log_broadcasts"),
       AddColumn("heads"),
       AddColumn("offchainreporting_oracle_specs"),
       Insert("evm_chains"),
       Update("eth_txes"),
       Update("log_broadcasts"),
       Update("heads"),
       DropIndexIfExists("idx_eth_txes_min_unconfirmed_nonce_for_key"),
       DropIndexIfExists("idx_eth_txes_nonce_from_address"),
       DropIndexIfExists("idx_only_one_in_progress_tx_per_account"),
       DropIndexIfExists("idx_eth_txes_state_from_address"),
       DropIndexIfExists("idx_eth_txes_unstarted_subject_id"),
       CreateIndex("idx_eth_txes_min_unconfirmed_nonce_for_key_evm_chain_id", "eth_txes", TRUE),
       CreateIndex("idx_eth_txes_nonce_from_address_per_evm_chain_id", "eth_txes", TRUE),
       CreateIndex("idx_only_one_in_progress_tx_per_account_id_per_evm_chain_id", "eth_txes",
                   TRUE),
       CreateIndex("idx_eth_txes_state_from_address_evm_chain_id", "eth_txes", TRUE),
       CreateIndex("idx_eth_txes_unstarted_subject_id_evm_chain_id", "eth_txes", TRUE),
       DropIndexIfExists("idx_heads_hash"),
       DropIndexIfExists("idx_heads_number"),
       CreateIndex("idx_heads_evm_chain_id_hash", "heads", TRUE),
       CreateIndex("idx_heads_evm_chain_id_number", "heads", TRUE),
       SetNotNull("eth_txes"),
       SetNotNull("log_broadcasts"),
       SetNotNull("heads") >>

\* lines 124-140
down56 ==
    << DropColumn("heads"),
       DropColumn("log_broadcasts"),
       DropColumn("eth_txes"),
       CreateIndex("idx_heads_hash", "heads", FALSE),
       CreateIndex("idx_heads_number", "heads", FALSE),
       CreateIndex("idx_eth_txes_min_unconfirmed_nonce_for_key", "eth_txes", FALSE),
       CreateIndex("idx_eth_txes_nonce_from_address", "eth_txes", FALSE),
       CreateIndex("idx_only_one_in_progress_tx_per_account_id", "eth_txes", FALSE),
       CreateIndex("idx_eth_txes_state_from_address", "eth_txes", FALSE),
       CreateIndex("idx_eth_txes_unstarted_subject_id", "eth_txes", FALSE),
       DropTable("nodes"),
       DropTable("evm_chains") >>

\* the schema: tables, the tables with an evm_chain_id column, those whose
\* column references evm_chains (id), and the indexes
Schema(tables, cols, fks, idx) == [tables |-> tables, cols |-> cols, fks |-> fks, idx |-> idx]

\* PostgreSQL running one statement on schema d: the schema it leaves, or an error
ExecStmt(s, d) ==
    LET fail == [err |-> TRUE, d |-> d]
        done(x) == [err |-> FALSE, d |-> x]
    IN  CASE s.k = "CreateTable" ->
                 IF s.t \in d.tables \/ (s.refs /\ "evm_chains" \notin d.tables) THEN fail
                 ELSE done([d EXCEPT !.tables = @ \cup {s.t},
                                     !.cols = IF s.refs THEN @ \cup {s.t} ELSE @,
                                     !.fks = IF s.refs THEN @ \cup {s.t} ELSE @])
          [] s.k = "DropTable" ->
                 IF s.t \notin d.tables \/ (s.t = "evm_chains" /\ d.fks # {}) THEN fail
                 ELSE done([d EXCEPT !.tables = @ \ {s.t}, !.cols = @ \ {s.t},
                                     !.fks = @ \ {s.t},
                                     !.idx = {i \in @ : i.t # s.t}])
          [] s.k = "AddColumn" ->
                 IF s.t \notin d.tables \/ s.t \in d.cols \/ "evm_chains" \notin d.tables
                 THEN fail
                 ELSE done([d EXCEPT !.cols = @ \cup {s.t}, !.fks = @ \cup {s.t}])
          [] s.k = "DropColumn" ->
                 IF s.t \notin d.cols THEN fail
                 ELSE done([d EXCEPT !.cols = @ \ {s.t}, !.fks = @ \ {s.t},
                                     !.idx = {i \in @ : ~(i.t = s.t /\ i.chain)}])
          [] s.k \in {"SetNotNull", "Update"} -> IF s.t \notin d.cols THEN fail ELSE done(d)
          [] s.k = "Insert" -> IF s.t \notin d.tables THEN fail ELSE done(d)
          [] s.k = "CreateIndex" ->
                 IF s.t \notin d.tables \/ (s.chain /\ s.t \notin d.cols)
                        \/ (\E i \in d.idx : i.n = s.n)
                 THEN fail
                 ELSE done([d EXCEPT !.idx = @ \cup {[n |-> s.n, t |-> s.t, chain |-> s.chain]}])
          [] s.k = "DropIndexIfExists" -> done([d EXCEPT !.idx = {i \in @ : i.n # s.n}])

\* the statements of a script in turn, up to the first that fails
RECURSIVE RunScript(_, _)
RunScript(sql, d) ==
    IF sql = <<>> THEN [err |-> FALSE, d |-> d]
    ELSE LET r == ExecStmt(Head(sql), d)
         IN  IF r.err THEN r ELSE RunScript(Tail(sql), r.d)

\* db.Exec(sql).Error: inside a transaction a failed script leaves the schema
\* as it was, outside one it leaves what ran before the failing statement
Exec(sql, d, atomic) ==
    LET r == RunScript(sql, d)
    IN  IF r.err /\ atomic THEN [err |-> TRUE, d |-> d] ELSE r

\* lines 146-153: ETH_CHAIN_ID, "1" when empty, must be a decimal integer
ChainIDOf(s) == IF s = <<>> THEN ParseBigInt(<<"1">>) ELSE ParseBigInt(s)

MigrateResult(op, out) == [op |-> op, out |-> out]

\* lines 145-157: Migrate of 0056_multichain, run when it is not applied
Migrate ==
    /\ pg # NoSchema
    /\ ~pg.applied
    /\ IF ChainIDOf(pg.ETH_CHAIN_ID).err
       THEN /\ ret' = MigrateResult("Migrate", "panic")
            /\ pg' = pg
       ELSE LET r == Exec(up56, pg.d, pg.atomic)
            IN  /\ ret' = MigrateResult("Migrate", IF r.err THEN "error" ELSE "nil")
                /\ pg' = [pg EXCEPT !.d = r.d, !.applied = ~r.err]
    /\ UNCHANGED <<Overrides, env, gcfg, id, defaultSet, persistedCfg, persistMu, orm, pc,
                   local, res, db, cll, down, agg>>

\* lines 158-160: Rollback of 0056_multichain, run when it is applied
Rollback ==
    /\ pg # NoSchema
    /\ pg.applied
    /\ LET r == Exec(down56, pg.d, pg.atomic)
       IN  /\ ret' = MigrateResult("Rollback", IF r.err THEN "error" ELSE "nil")
           /\ pg' = [pg EXCEPT !.d = r.d, !.applied = r.err]
    /\ UNCHANGED <<Overrides, env, gcfg, id, defaultSet, persistedCfg, persistMu, orm, pc,
                   local, res, db, cll, down, agg>>

\* the indexes the two scripts drop or create by their old names
OldIndexes ==
    { [n |-> "idx_eth_txes_min_unconfirmed_nonce_for_key", t |-> "eth_txes", chain |-> FALSE],
      [n |-> "idx_eth_txes_nonce_from_address", t |-> "eth_txes", chain |-> FALSE],
      [n |-> "idx_only_one_in_progress_tx_per_account", t |-> "eth_txes", chain |-> FALSE],
      [n |-> "idx_only_one_in_progress_tx_per_account_id", t |-> "eth_txes", chain |-> FALSE],
      [n |-> "idx_eth_txes_state_from_address", t |-> "eth_txes", chain |-> FALSE],
      [n |-> "idx_eth_txes_unstarted_subject_id", t |-> "eth_txes", chain |-> FALSE],
      [n |-> "idx_heads_hash", t |-> "heads", chain |-> FALSE],
      [n |-> "idx_heads_number", t |-> "heads", chain |-> FALSE] }

\* the schema before migration 0056: the four tables, with any of the old indexes
PriorSchemas == {Schema(ChainTables, {}, {}, idx) : idx \in SUBSET OldIndexes}

MigrationInit ==
    /\ \E d \in PriorSchemas, atomic \in BOOLEAN, s \in {<<>>, <<"7">>, Str_Minus7, <<"x">>} :
           pg = [st |-> "db", d |-> d, applied |-> FALSE, atomic |-> atomic, ETH_CHAIN_ID |-> s]
    /\ db = NoDB
    /\ cll = NotBuilt
    /\ down = {}
    /\ agg = NoAgg
    /\ Overrides = NoOverrides
    /\ ResolverConstructed(EmptyEnv, EmptyChainCfg,
                           [EthereumDisabled |-> FALSE, ValidateErr |-> FALSE, OCRSane |-> TRUE],
                           BigID(0, 99))

MigrationNext == Migrate \/ Rollback

MigrationSpec == MigrationInit /\ [][MigrationNext]_vars

\* ================================================ TestChainScopedConfig
\* the getters TestChainScopedConfig defines, among those of the resolver
TestGetters ==
    { "GasEstimatorMode", "EvmFinalityDepth", "MinIncomingConfirmations",
      "BalanceMonitorEnabled", "EvmGasPriceDefault", "BlockHistoryEstimatorBlockHistorySize",
      "EvmGasBumpPercent", "EvmRPCDefaultBatchSize", "EvmMaxGasPriceWei", "EvmGasBumpTxDepth",
      "EvmHeadTrackerHistoryDepth", "EvmGasLimitDefault" }

\* evm_config.go lines 65-232: the override when it is set; otherwise a fixed
\* value (lines 65-115) or the embedded ChainScopedConfig's getter (lines 117-232)
TestGetter(g) ==
    CASE g = "GasEstimatorMode" ->
             IF Overrides.GasEstimatorMode.Valid THEN Ok(Overrides.GasEstimatorMode.String)
             ELSE Ok(Str_FixedPrice)
      [] g = "EvmFinalityDepth" ->
             IF Overrides.EvmFinalityDepth.Valid THEN Ok(ToUint(Overrides.EvmFinalityDepth.Int64))
             ELSE Ok(15)
      [] g = "MinIncomingConfirmations" -> Ok(1)
      [] g = "BalanceMonitorEnabled" -> Ok(FALSE)
      [] g \in {"EvmGasPriceDefault", "EvmMaxGasPriceWei"} ->
             IF ~Overrides[g].nil THEN Ok(Overrides[g].v) ELSE Getter(g)
      [] g \in {"BlockHistoryEstimatorBlockHistorySize", "EvmGasBumpPercent",
                "EvmGasBumpTxDepth"} ->
             IF Overrides[g].Valid THEN Ok(ToUint16(Overrides[g].Int64)) ELSE Getter(g)
      [] g \in {"EvmRPCDefaultBatchSize", "EvmHeadTrackerHistoryDepth", "EvmGasLimitDefault"} ->
             IF Overrides[g].Valid THEN Ok(ToUint(Overrides[g].Int64)) ELSE Getter(g)

TestResult(g, out) == [op |-> "TestChainScopedConfig", g |-> g, out |-> out]

\* a getter of the TestChainScopedConfig is called; the embedded
\* EvmGasPriceDefault(), when it is reached, takes its read holds
TestCall(g) ==
    /\ Overrides # NoOverrides
    /\ LET holds == IF g = "EvmGasPriceDefault" /\ Overrides.EvmGasPriceDefault.nil
                    THEN GasPriceReadHolds ELSE 0
       IN  /\ persistMu.readers + holds <= MaxReaderCount
           /\ persistMu' = RLockN(persistMu, holds)
    /\ ret' = TestResult(g, TestGetter(g))
    /\ UNCHANGED <<Overrides, pg, env, gcfg, id, db, cll, down, agg, defaultSet, persistedCfg,
                   orm, pc, local, res>>

\* lines 131-134: SetEvmGasPriceDefault stores the override and returns nil
TestSetEvmGasPriceDefault(p) ==
    /\ Overrides # NoOverrides
    /\ Overrides' = [Overrides EXCEPT !.EvmGasPriceDefault = Ptr(p)]
    /\ ret' = TestResult("SetEvmGasPriceDefault", Ok(p))
    /\ UNCHANGED <<pg, env, gcfg, id, db, cll, down, agg, defaultSet, persistedCfg, persistMu,
                   orm, pc, local, res>>

\* environments of the wrapped resolver
TestEnvs ==
    { EmptyEnv,
      [EmptyEnv EXCEPT !["GAS_ESTIMATOR_MODE"] = Present(Str_BlockHistory)],
      [EmptyEnv EXCEPT !["MIN_INCOMING_CONFIRMATIONS"] = Present(<<"7">>)],
      [EmptyEnv EXCEPT !["ETH_GAS_BUMP_PERCENT"] = Present(<<"7">>)] }

\* lines 55-63: NewTestChainScopedConfig wraps NewChainScopedConfig and starts
\* with no override; a test then sets the overrides it wants
TestInit ==
    \E e \in TestEnvs, cfg \in ChainCfgs, o \in ChainCfgs, chainID \in {BigID(0, 1), BigID(0, 10)} :
        /\ db = NoDB
        /\ cll = NotBuilt
        /\ down = {}
        /\ agg = NoAgg
        /\ pg = NoSchema
        /\ Overrides = o
        /\ ResolverConstructed(e, cfg,
                               [EthereumDisabled |-> FALSE, ValidateErr |-> FALSE,
                                OCRSane |-> TRUE],
                               chainID)

TestNext ==
    \/ \E g \in TestGetters : TestCall(g)
    \/ \E p \in {0, 3} : TestSetEvmGasPriceDefault(p)

TestSpec == TestInit /\ [][TestNext]_vars

\* ================================================================== claims
\* what the environment holds for getter g
EnvSet(g) == env[EnvKeyOf(g)].set
WellFormed(g) == EnvSet(g) /\ ~Parse(ParserOf(g), env[EnvKeyOf(g)].s).err
Malformed(g) == EnvSet(g) /\ Parse(ParserOf(g), env[EnvKeyOf(g)].s).err
EnvValue(g) == Parse(ParserOf(g), env[EnvKeyOf(g)].s).val.v

\* what the persisted record holds for getter g
FieldSet(g) ==
    /\ g \in PersistedGetters
    /\ IF g \in IntFields THEN persistedCfg[g].Valid
       ELSE IF g \in PtrFields THEN ~persistedCfg[g].nil
       ELSE persistedCfg[g].Valid
FieldValue(g) ==
    IF g \in IntFields THEN persistedCfg[g].Int64
    ELSE IF g \in PtrFields THEN persistedCfg[g].v
    ELSE persistedCfg[g].String

\* the layers below the environment: the persisted override if set, else the default set
LowerLayers(g) == IF FieldSet(g) THEN FieldValue(g) ELSE DefaultOf(g)

\* the getters the connectivity-disabled flag short-circuits
ShortCircuited(g) == gcfg.EthereumDisabled /\ g \in {"GasEstimatorMode", "BalanceMonitorEnabled"}

\* C1: for every getter, a well-formed value of its environment variable is
\* what the getter returns, whatever the persisted record, the default set and
\* the global configuration hold.  Stated outside the two cases the code
\* documents as exceptions (the connectivity-disabled short-circuit, and a
\* batch size of 0 falling through to the RPC default batch size).
C1_EnvWins ==
    \A g \in Getters :
        (/\ ret.op = g
         /\ WellFormed(g)
         /\ ~ShortCircuited(g)
         /\ ~(g = "BlockHistoryEstimatorBatchSize" /\ EnvValue(g) = 0))
            => ret.out = Ok(EnvValue(g))

C9_DefaultSetByIdentity ==
    defaultSet = IF id.hi = 0 /\ id.lo \in DOMAIN chainSpecificConfigDefaultSets
                 THEN chainSpecificConfigDefaultSets[id.lo]
                 ELSE fallbackDefaultSet

ErrSet(errs) == {errs[i] : i \in 1..Len(errs)}

\* the invariants of the data model that the resolved values violate
ViolatedChecks ==
    {e \in { "ETH_FINALITY_DEPTH", "ETH_HEAD_TRACKER_HISTORY_DEPTH",
             "MIN_INCOMING_CONFIRMATIONS", "ETH_MIN_GAS_PRICE_WEI", "ETH_MAX_GAS_PRICE_WEI",
             "ETH_GAS_BUMP_TX_DEPTH", "ETH_GAS_BUMP_PERCENT", "GAS_UPDATER_BLOCK_HISTORY_SIZE",
             "SanityCheckLocalConfig", "GeneralConfig" } :
        CASE e = "ETH_FINALITY_DEPTH" -> ~(EvmFinalityDepth.v >= 1)
          [] e = "ETH_HEAD_TRACKER_HISTORY_DEPTH" ->
                 ~(EvmHeadTrackerHistoryDepth.v >= EvmFinalityDepth.v)
          [] e = "MIN_INCOMING_CONFIRMATIONS" -> ~(MinIncomingConfirmations.v >= 1)
          [] e = "ETH_MIN_GAS_PRICE_WEI" -> ~(EvmMinGasPriceWei.v <= EvmGasPriceDefault.v)
          [] e = "ETH_MAX_GAS_PRICE_WEI" -> ~(EvmGasPriceDefault.v <= EvmMaxGasPriceWei.v)
          [] e = "ETH_GAS_BUMP_TX_DEPTH" ->
                 ~(EvmGasBumpTxDepth.v <= EvmMaxInFlightTransactions.v)
          [] e = "ETH_GAS_BUMP_PERCENT" -> ~(EvmGasBumpPercent.v >= PriceBump)
          [] e = "GAS_UPDATER_BLOCK_HISTORY_SIZE" ->
                 GasEstimatorMode.v = Str_BlockHistory
                     /\ ~(BlockHistoryEstimatorBlockHistorySize.v >= 1)
          [] e = "SanityCheckLocalConfig" -> ~gcfg.OCRSane
          [] e = "GeneralConfig" -> gcfg.ValidateErr }

\* C6: Validate() evaluates every check and returns one combined error with
\* exactly one entry for each violated check, nil when none is violated.
C6_ValidateCollectsAll ==
    ret.op = "Validate" =>
        /\ ret.out.st = "ok"
        /\ ErrSet(ret.out.v) = ViolatedChecks
        /\ Len(ret.out.v) = Cardinality(ViolatedChecks)

\* C7: when the global validation and the consensus-timing check pass,
\* Validate() returns nil exactly when every invariant holds on the resolved values.
C7_NilIffInvariantsHold ==
    (ret.op = "Validate" /\ ~gcfg.ValidateErr /\ gcfg.OCRSane) =>
        /\ ret.out.st = "ok"
        /\ (ret.out.v = <<>>) <=> (ViolatedChecks = {})

\* -------------------------------------------------------- default gas price
InBounds(v) == EvmMinGasPriceWei.v <= v /\ v <= EvmMaxGasPriceWei.v

\* C2: a SetEvmGasPriceDefault(v) call with min <= v <= max returns, with
\* success unless the persistence collaborator reported an error, and a read
\* at that point returns exactly v (when the environment does not decide it).
C2_SetInBoundsReturns ==
    \A p \in Procs :
        (pc[p] = "set_check" /\ InBounds(local[p]))
            ~> (/\ pc[p] = "idle"
                /\ res[p].op = "SetEvmGasPriceDefault"
                /\ res[p].err \in {"nil", "store"}
                /\ ~lookupEnv("ETH_GAS_PRICE_DEFAULT", "ParseBigInt").ok
                       => EvmGasPriceDefault = Ok(res[p].v))

\* C3: a SetEvmGasPriceDefault(v) call with v below the minimum or above the
\* maximum returns an error from its bounds check, and that leaves the
\* in-memory record and the persistence collaborator untouched.
C3_RejectOutOfBounds ==
    [][\A p \in Procs :
          (pc[p] = "set_check" /\ ~InBounds(local[p]) /\ pc'[p] # pc[p]) =>
              /\ pc'[p] = "idle"
              /\ res'[p] = SetResult(local[p],
                                     IF local[p] < EvmMinGasPriceWei.v THEN "below" ELSE "above")
              /\ persistedCfg' = persistedCfg
              /\ orm' = orm]_vars

\* C3: a value above the maximum has been rejected
C3_Witness ==
    \E p \in Procs :
        /\ pc[p] = "idle"
        /\ res[p].op = "SetEvmGasPriceDefault"
        /\ res[p].err = "above"
        /\ res[p].v > EvmMaxGasPriceWei.v
        /\ orm.stores = 0

\* C4: under fair scheduling every EvmGasPriceDefault and every
\* SetEvmGasPriceDefault call eventually returns.
C4_EveryCallReturns ==
    \A p \in Procs : (pc[p] # "idle") ~> (pc[p] = "idle")

\* C5: while a Set call is between its in-memory write and the return of its
\* persistence call, no other Set call is in that section and no
\* EvmGasPriceDefault call is reading the persisted field.
C5_WriterExcludes ==
    \A p \in Procs :
        pc[p] = "set_store" =>
            \A q \in Procs \ {p} : pc[q] \notin {"set_store", "gpd_read"}

\* C5: a writer is in its section while another call waits for the lock
C5_Witness ==
    \E p \in Procs, q \in Procs :
        /\ pc[p] = "set_store"
        /\ pc[q] \in {"gpd_rlock", "set_lock"}

\* ------------------------------------------------- the disabled short-circuit
\* what a getter outside the short-circuit returns, written without the
\* connectivity flag: the environment value (the two depth getters fail on
\* their type assertion, a batch size of 0 defers to the RPC default batch
\* size), else the lower layers
FlagFree(g) ==
    IF WellFormed(g)
    THEN IF g \in {"EvmFinalityDepth", "EvmHeadTrackerHistoryDepth"} THEN Panic
         ELSE IF g = "BlockHistoryEstimatorBatchSize" /\ EnvValue(g) = 0
              THEN IF WellFormed("EvmDefaultBatchSize")
                   THEN Ok(EnvValue("EvmDefaultBatchSize"))
                   ELSE Ok(defaultSet.rpcDefaultBatchSize)
              ELSE Ok(EnvValue(g))
    ELSE Ok(LowerLayers(g))

\* C11: with chain connectivity globally disabled GasEstimatorMode() returns
\* "FixedPrice" and BalanceMonitorEnabled() returns false whatever the
\* environment, the persisted record and the default set hold; every other
\* getter returns what it returns without the flag.
C11_DisabledShortCircuit ==
    /\ (gcfg.EthereumDisabled /\ ret.op = "GasEstimatorMode") => ret.out = Ok(Str_FixedPrice)
    /\ (gcfg.EthereumDisabled /\ ret.op = "BalanceMonitorEnabled") => ret.out = Ok(FALSE)
    /\ \A g \in Getters \ {"GasEstimatorMode", "BalanceMonitorEnabled"} :
           ret.op = g => ret.out = FlagFree(g)

\* C11: the mode getter has returned "FixedPrice" over an environment value
\* naming another mode
C11_Witness ==
    /\ gcfg.EthereumDisabled
    /\ ret.op = "GasEstimatorMode"
    /\ env["GAS_ESTIMATOR_MODE"] = Present(Str_BlockHistory)
    /\ ret.out = Ok(Str_FixedPrice)

\* ------------------------------------------------------- the chain collection
\* the chains the collection holds, and their identities
Registered == {cll.chains[k] : k \in DOMAIN cll.chains}
RegisteredIDs == {c.id : c \in Registered}

\* the identities of the chain records, and those with a malformed node URL
RecordIDs == {db.chains[i] : i \in DOMAIN db.chains}
FailingIDs == {x \in RecordIDs : \E n \in db.nodes : n.EVMChainID = x /\ n.bad}

\* the chain records were read and handed to NewChainCollection
BuiltFromRecords == cll # NotBuilt /\ ~gcfg.EthereumDisabled /\ ~db.chainsErr /\ ~db.nodesErr

\* C12: building the collection never aborts on a record that fails to build:
\* the collection holds every chain that built and none that failed, and the
\* error returned is non-nil exactly when a record failed.
C12_PartialFailureTolerant ==
    BuiltFromRecords =>
        /\ cll.st = "ok"
        /\ RegisteredIDs = RecordIDs \ FailingIDs
        /\ ChainCount = Cardinality(RecordIDs \ FailingIDs)
        /\ ret.op = "LoadChainCollection" => ((ret.err # <<>>) <=> (FailingIDs # {}))

\* C12: two records, one failing: one chain and a non-nil error
C12_Witness ==
    /\ ret.op = "LoadChainCollection"
    /\ Len(db.chains) = 2
    /\ Cardinality(FailingIDs) = 1
    /\ ChainCount = 1
    /\ ret.err # <<>>

\* C13: with chain connectivity disabled LoadChainCollection returns an empty
\* collection and a nil error without reading a chain or node record; on it
\* ChainCount() is 0, Chains() is empty, and Start, Close, Healthy and Ready
\* return nil.
C13_DisabledIsEmpty ==
    (gcfg.EthereumDisabled /\ cll # NotBuilt) =>
        /\ cll.st = "ok"
        /\ Registered = {}
        /\ ret.op = "LoadChainCollection" => (ret.err = <<>> /\ ret.finds = 0)
        /\ ret.op = "ChainCount" => ret.out = 0
        /\ ret.op = "Chains" => ret.out = <<>>
        /\ ret.op \in LifecycleOps => ret.out = <<>>

\* C13: Start() has returned nil on the collection loaded with connectivity
\* disabled, over a table that holds chain records
C13_Witness ==
    /\ gcfg.EthereumDisabled
    /\ db.chains # <<>>
    /\ ret.op = "Start"
    /\ ret.out = <<>>

\* the identity a lookup was about
Target == IF ret.op = "Default" THEN cll.defaultID ELSE ret.id

\* C14: Get(id) and Default() return a chain only if its Ready() returned nil
\* during the call; when the chain is registered and Ready() reports an error
\* they return no chain and a not-ready error that wraps that error.
C14_OnlyReadyChains ==
    (ret.op \in {"Get", "Default"} /\ ret.out.st = "ok") =>
        /\ ret.out.chain # NoChain =>
               \E n \in DOMAIN ret.out.calls :
                   ret.out.calls[n] = [id |-> ret.out.chain.id, op |-> "Ready", err |-> NilErr]
        /\ (Target.v \in RegisteredIDs /\ Target.v \in ret.at) =>
               /\ ret.out.chain = NoChain
               /\ ret.out.err.kind = "not ready"
               /\ ret.out.err.cause = [kind |-> "chain", op |-> "Ready", id |-> Target.v]

\* C14: Default() has answered not-ready for a default chain that is down
C14_Witness ==
    /\ ret.op = "Default"
    /\ ret.out.st = "ok"
    /\ cll.defaultID.v \in RegisteredIDs
    /\ ret.out.chain = NoChain
    /\ ret.out.err.kind = "not ready"

\* C15: Get(id) for a non-nil identity that is not registered returns a
\* not-found error and no chain without calling Ready() on any chain; for a
\* registered identity whose chain is ready it returns the chain with that ID.
C15_GetByIdentity ==
    (ret.op = "Get" /\ ~ret.id.nil) =>
        /\ ret.id.v \notin RegisteredIDs =>
               /\ ret.out.st = "ok"
               /\ ret.out.chain = NoChain
               /\ ret.out.err = [kind |-> "not found", id |-> ret.id.v]
               /\ ret.out.calls = <<>>
        /\ (ret.id.v \in RegisteredIDs /\ ret.id.v \notin ret.at) =>
               /\ ret.out.st = "ok"
               /\ ret.out.chain # NoChain
               /\ ret.out.chain.id = ret.id.v
               /\ ret.out.err = NilErr

\* C15: identity 2^64 + 1 is not found in a collection that holds identity 1
C15_Witness ==
    /\ ret.op = "Get"
    /\ ret.id = Ptr(BigID(1, 1))
    /\ RegisteredIDs = {BigID(0, 1)}
    /\ ret.out.st = "ok"
    /\ ret.out.err.kind = "not found"

\* C16: in every state of the collection Default() returns what
\* Get(defaultIdentity) returns, defaultIdentity being the value the global
\* configuration gave at construction, which no later operation changes.
C16_DefaultIsGetOfConfigured ==
    /\ cll.st = "ok" => cll.defaultID = gcfg.DefaultChainID
    /\ (ret.op = "Default" /\ ret.at = down) => ret.out = Get(gcfg.DefaultChainID)

\* C17: a lifecycle call on the collection returns only after it has called
\* the operation once on every registered chain, whatever the others returned;
\* it returns nil exactly when every chain returned nil, and otherwise an error
\* that combines every chain's error.
C17_FanOutAggregates ==
    ret.op \in LifecycleOps =>
        /\ Len(ret.calls) = Cardinality(Registered)
        /\ \A c \in Registered :
               \E n \in DOMAIN ret.calls : ret.calls[n].id = c.id /\ ret.calls[n].op = ret.op
        /\ (ret.out = <<>>) <=> (\A n \in DOMAIN ret.calls : ret.calls[n].err = NilErr)
        /\ ErrSet(ret.out) = {ret.calls[n].err : n \in DOMAIN ret.calls} \ {NilErr}
        /\ Len(ret.out) = Cardinality(ErrSet(ret.out))

\* C17: Ready() has gone on to the second chain after the first returned an error
C17_Witness ==
    /\ ret.op = "Ready"
    /\ Len(ret.calls) = 2
    /\ ret.calls[1].err # NilErr
    /\ ret.calls[2].err = NilErr
    /\ Len(ret.out) = 1

\* C18: once the collection is constructed no operation on it adds, removes or
\* replaces an entry of the index or changes the default identity.
C18_IndexReadOnly ==
    [][cll.st = "ok" => cll' = cll]_vars

\* C18: a lookup has answered not-ready and a lifecycle call has run over a
\* collection that still holds both its chains
C18_Witness ==
    /\ ret.op = "Close"
    /\ Len(ret.calls) = 2
    /\ down # {}
    /\ RegisteredIDs = RecordIDs
    /\ ChainCount = 2

\* C19: IsOptimism is true exactly for identities 10 and 69, IsArbitrum exactly
\* for 42161 and 421611, IsL2 exactly when one of the two is; classifying reads
\* the identity alone and writes nothing.
C19_Classification ==
    [][ret'.op = "Classify" =>
          /\ ret'.out.IsOptimism <=> (id \in {BigID(0, 10), BigID(0, 69)})
          /\ ret'.out.IsArbitrum <=> (id \in {BigID(0, 42161), BigID(0, 421611)})
          /\ ret'.out.IsL2 <=> (ret'.out.IsOptimism \/ ret'.out.IsArbitrum)
          /\ (id = BigID(0, 1)) => ~ret'.out.IsL2
          /\ UNCHANGED <<Overrides, pg, env, gcfg, id, defaultSet, persistedCfg, persistMu, orm, pc, local,
                         res, db, cll, down, agg>>]_vars

\* C19: identity 2^64 + 10 has been classified as no rollup
C19_Witness ==
    /\ ret.op = "Classify"
    /\ id = BigID(1, 10)
    /\ ret.out = [IsOptimism |-> FALSE, IsArbitrum |-> FALSE, IsL2 |-> FALSE]

\* error set of a Validate() result
ValidateErrs(out) == IF out.st = "ok" THEN ErrSet(out.v) ELSE {"panic"}

C21_DefaultNeverPanics ==
    ret.op = "Default" => ret.out # Panic

\* ------------------------------------------- default gas price stays in bounds
\* the gas-price entries of Validate()'s error
GasPriceErrs == {"ETH_MIN_GAS_PRICE_WEI", "ETH_MAX_GAS_PRICE_WEI"}

\* the default gas price a call returns lies between the minimum and the
\* maximum, and Validate() reports neither gas-price violation
GasPriceValid ==
    /\ EvmGasPriceDefault.st = "ok"
    /\ InBounds(EvmGasPriceDefault.v)
    /\ validate.st = "ok"
    /\ ErrSet(validate.v) \cap GasPriceErrs = {}
    /\ \A p \in Procs :
           res[p].op = "EvmGasPriceDefault" =>
               res[p].out.st = "ok" /\ InBounds(res[p].out.v)

\* C22: on a resolver that starts with minimum <= default gas price <= maximum,
\* after any sequence of SetEvmGasPriceDefault calls, accepted or rejected,
\* EvmGasPriceDefault() still returns a value within [minimum, maximum] and
\* Validate() reports no gas-price violation.
C22_DefaultStaysInBounds ==
    GasPriceValid => []GasPriceValid

\* C22: two Set calls were stored, the last one raised the value to the maximum,
\* and a read has since returned that value
C22_Witness ==
    /\ res["g1"].op = "SetEvmGasPriceDefault" /\ res["g1"].err = "nil"
    /\ orm.stores = 2
    /\ res["g2"].op = "EvmGasPriceDefault"
    /\ res["g2"].out = Ok(res["g1"].v)
    /\ res["g1"].v = EvmMaxGasPriceWei.v
    /\ defaultSet.gasPriceDefault < res["g1"].v

\* ------------------------------------------------------------- batch sizes
\* C25: BlockHistoryEstimatorBatchSize() returns the batch size resolved from
\* the environment or the default set when that is not 0, and otherwise the
\* value EvmRPCDefaultBatchSize() returns on the same resolver.
C25_ZeroFallsBackToRPCDefault ==
    ret.op = "BlockHistoryEstimatorBatchSize" =>
        LET size == IF WellFormed("BlockHistoryEstimatorBatchSize")
                    THEN EnvValue("BlockHistoryEstimatorBatchSize")
                    ELSE defaultSet.blockHistoryEstimatorBatchSize
        IN  IF size > 0 THEN ret.out = Ok(size) ELSE ret.out = EvmRPCDefaultBatchSize

\* ------------------------------------------------ in-flight limit disabled
\* C26: when EvmMaxInFlightTransactions() resolves to 0, which disables the
\* in-flight limit, Validate() reports no gas-bump-tx-depth violation,
\* whatever EvmGasBumpTxDepth() returns.
C26_NoDepthViolationWhenUnlimited ==
    (ret.op = "Validate" /\ ret.out.st = "ok" /\ EvmMaxInFlightTransactions = Ok(0)) =>
        "ETH_GAS_BUMP_TX_DEPTH" \notin ErrSet(ret.out.v)

\* ------------------------------------------- a failed Set leaves no trace
\* C23: a SetEvmGasPriceDefault call that returns an error, from its bounds
\* check or from the persistence collaborator, leaves the in-memory default gas
\* price as it was, so that outside a Set call's write-and-store section the
\* in-memory value is the last value durably persisted.
C23_MemoryMatchesPersisted ==
    (\A q \in Procs : pc[q] # "set_store") => persistedCfg.EvmGasPriceDefault = orm.stored

\* ------------------------------------------------------ shape of the index
\* the records that built a chain
BuiltIDs == RecordIDs \ FailingIDs

\* C24: in every state of the collection each key of the index is the decimal
\* string of its chain's identity, chains of different identities have entries
\* of their own, Chains() returns each indexed chain exactly once, and
\* ChainCount() is the length of Chains().
C24_IndexShape ==
    cll.st = "ok" =>
        /\ \A k \in DOMAIN cll.chains : k = String(cll.chains[k].id)
        /\ BuiltFromRecords =>
               \A x \in BuiltIDs, y \in BuiltIDs :
                   x # y => \E k1 \in DOMAIN cll.chains, k2 \in DOMAIN cll.chains :
                                k1 # k2 /\ cll.chains[k1].id = x /\ cll.chains[k2].id = y
        /\ \A c \in Chains :
               /\ Len(c) = ChainCount
               /\ \A ch \in Registered : Cardinality({i \in DOMAIN c : c[i] = ch}) = 1
               /\ \A i \in DOMAIN c : c[i] \in Registered
        /\ ret.op = "Chains" => ret.out \in Chains
        /\ ret.op = "ChainCount" => \A c \in Chains : ret.out = Len(c)

\* C24: the index holds chains 1 and 2^64 + 1, whose identities share their low
\* 64 bits, and Chains() has returned the two
C24_Witness ==
    /\ cll.st = "ok"
    /\ RegisteredIDs = {BigID(0, 1), BigID(1, 1)}
    /\ ret.op = "Chains"
    /\ Len(ret.out) = 2
    /\ ret.out[1].id = BigID(1, 1)

\* ------------------------------------------------ migration 0056 and back
\* no table, column or foreign key of migration 0056 is left
Migration56Gone ==
    /\ pg.d.tables = ChainTables
    /\ pg.d.cols = {}
    /\ pg.d.fks = {}

\* C27: the rollback of migration 0056 succeeds and removes every table,
\* column and foreign-key reference the up script added, so that evm_chains is
\* dropped with nothing referencing it, and the migration can then be applied
\* again.
C27_RollbackRestores ==
    [][/\ ret'.op = "Rollback" => (ret'.out = "nil" /\ Migration56Gone')
       /\ (ret.op = "Rollback" /\ ret'.op = "Migrate" /\ ret'.out # "panic")
              => ret'.out = "nil"]_vars

\* -------------------------------------------------- the test configuration
\* the override of getter g, when TestChainScopedConfig has one that is set
OverrideSet(g) ==
    /\ g \in PersistedGetters
    /\ IF g \in PtrFields THEN ~Overrides[g].nil ELSE Overrides[g].Valid
OverrideValue(g) ==
    IF g \in IntFields THEN Overrides[g].Int64
    ELSE IF g \in PtrFields THEN Overrides[g].v
    ELSE Overrides[g].String

\* C28: every getter TestChainScopedConfig defines returns its override when
\* that is set, and otherwise what the wrapped ChainScopedConfig built by
\* NewChainScopedConfig returns.
C28_TestConfigRefinesWrapped ==
    (ret.op = "TestChainScopedConfig" /\ ret.g \in TestGetters) =>
        IF OverrideSet(ret.g) THEN ret.out = Ok(OverrideValue(ret.g))
        ELSE ret.out = Getter(ret.g)

====
